---- MODULE Spec2Model ----
(***************************************************************************)
(* A model of the pipeline execution engine of trc-manager                 *)
(* (src/trc/pipeline.py): the dependency graph builder, the validator,     *)
(* the topological scheduler, the resume logic and the runner              *)
(* process_pipeline with its merge of stage results.                       *)
(***************************************************************************)
EXTENDS Naturals, Integers, Sequences, FiniteSets, TLC

VARIABLES
    config,         \* config.json and the stage registry: order, stages switched off, descriptors
    incident_file,  \* the incident's JSON file: <<document>>, or << >> while it does not exist
    people_file,    \* the people directory file: raw name -> person record
    run,            \* the local state of the current call of process_pipeline
    runs,           \* the number of calls started so far
    fIn,     \* the arguments of the function under study (pure-function specifications)
    fOut     \* <<r>> once the function has returned r for fIn, << >> before the call

vars == <<config, incident_file, people_file, run, runs, fIn, fOut>>

(***************************************************************************)
(* Bounds of the model.                                                    *)
(***************************************************************************)
\* longest configured pipeline_order handed to the scheduler alone
MaxOrderLen == 4

\* the stage names configurations are drawn from
Names == {"parse", "enhance", "summarize"}

(***************************************************************************)
(* Helpers on sequences: Python list operations used by the code.          *)
(***************************************************************************)
Range(s) == {s[i] : i \in 1..Len(s)}

\* list.index(x): the first position holding x (0 when absent; the code only
\* asks for members)
Index(s, x) ==
    IF x \in Range(s) THEN CHOOSE i \in 1..Len(s) : s[i] = x /\ \A j \in 1..(i-1) : s[j] # x
    ELSE 0

\* [x for x in s if x in S]
Filter(s, S) ==
    LET Test(x) == x \in S IN SelectSeq(s, Test)

\* all sequences over S of length at most n
SeqsUpTo(S, n) == UNION {[1..k -> S] : k \in 0..n}

RECURSIVE SortedByIndexFrom(_, _, _)
\* queue.sort(key=lambda x: nodes.index(x)), a stable sort: the members of q
\* whose first position in nodes is k, for k = from..Len(nodes), in that order
SortedByIndexFrom(q, nodes, from) ==
    IF from > Len(nodes) THEN <<>>
    ELSE LET AtK(x) == Index(nodes, x) = from
         IN SelectSeq(q, AtK) \o SortedByIndexFrom(q, nodes, from + 1)

SortedByIndexDesc(q, nodes) ==
    LET asc == SortedByIndexFrom(q, nodes, 1)
    IN [i \in 1..Len(asc) |-> asc[Len(asc) + 1 - i]]

SortedByIndex(q, nodes) == SortedByIndexFrom(q, nodes, 1)

\* a set as a sequence without repetitions, in an arbitrary fixed order
RECURSIVE SetToSeq(_)
SetToSeq(S) ==
    IF S = {} THEN <<>>
    ELSE LET x == CHOOSE y \in S : TRUE IN <<x>> \o SetToSeq(S \ {x})

(***************************************************************************)
(* _toposort_respecting_order(order, graph)                                *)
(* graph: a function from stage names to sets of prerequisite names.       *)
(* The result is a record: kind "ok" with the order, or the ValueError     *)
(* raised: kind "missing" (with the stages and their absent prerequisites) *)
(* or kind "cycle".                                                        *)
(***************************************************************************)
TopoNodes(order, graph) == Filter(order, DOMAIN graph)

\* the errors list of the first loop: one entry per position of nodes whose
\* stage has prerequisites outside the node set (the order of the messages of
\* one stage follows the iteration of a set and is not modelled)
TopoMissing(order, graph) ==
    LET nodes == TopoNodes(order, graph)
        present == Range(nodes)
        Bad(i) == graph[nodes[i]] \ present
        idx == SetToSeq({i \in 1..Len(nodes) : Bad(i) # {}})
        pos == SortedByIndex(idx, [i \in 1..Len(nodes) |-> i])
    IN [k \in 1..Len(pos) |-> [stage |-> nodes[pos[k]], missing |-> Bad(pos[k])]]

RECURSIVE TopoIndegFrom(_, _, _, _)
\* indeg after the first loop has handled nodes[i..]: every position of nodes
\* adds one per present prerequisite of its stage
TopoIndegFrom(nodes, graph, indeg, i) ==
    IF i > Len(nodes) THEN indeg
    ELSE LET s == nodes[i]
             n == Cardinality(graph[s] \cap Range(nodes))
         IN TopoIndegFrom(nodes, graph, [indeg EXCEPT ![s] = @ + n], i + 1)

TopoIndeg(nodes, graph) ==
    TopoIndegFrom(nodes, graph, [s \in Range(nodes) |-> 0], 1)

\* adj[p]: the stages of the node set that list p as a prerequisite
TopoAdj(nodes, graph) ==
    [p \in Range(nodes) |-> {s \in Range(nodes) : p \in graph[s]}]

RECURSIVE Kahn(_, _, _, _, _)
\* the while loop: pop the head, emit it, decrement its dependents, append the
\* ones that reach zero and sort the queue again by position in nodes
Kahn(nodes, adj, remaining, queue, out) ==
    IF queue = <<>> THEN out
    ELSE LET n == Head(queue)
             rem2 == [m \in DOMAIN remaining |->
                        IF m \in adj[n] THEN remaining[m] - 1 ELSE remaining[m]]
             ready == {m \in adj[n] : rem2[m] = 0}
             q2 == SortedByIndex(Tail(queue) \o SetToSeq(ready), nodes)
         IN Kahn(nodes, adj, rem2, q2, Append(out, n))

toposort_respecting_order(order, graph) ==
    LET nodes == TopoNodes(order, graph)
        errors == TopoMissing(order, graph)
        indeg == TopoIndeg(nodes, graph)
        Zero(s) == indeg[s] = 0
        queue == SortedByIndex(SelectSeq(nodes, Zero), nodes)
        out == Kahn(nodes, TopoAdj(nodes, graph), indeg, queue, <<>>)
    IN IF errors # <<>>
       THEN [kind |-> "missing", order |-> <<>>, missing |-> errors]
       ELSE IF Len(out) # Len(nodes)
       THEN [kind |-> "cycle", order |-> <<>>, missing |-> <<>>]
       ELSE [kind |-> "ok", order |-> out, missing |-> <<>>]

(***************************************************************************)
(* _collect_prereqs(graph, start): the transitive prerequisites of start.  *)
(***************************************************************************)
RECURSIVE PrereqClosure(_, _)
PrereqClosure(graph, visited) ==
    LET more == UNION {IF n \in DOMAIN graph THEN graph[n] ELSE {} : n \in visited}
    IN IF more \subseteq visited THEN visited
       ELSE PrereqClosure(graph, visited \cup more)

collect_prereqs(graph, start) ==
    IF start \in DOMAIN graph /\ graph[start] # {}
    THEN PrereqClosure(graph, graph[start])
    ELSE {}

(***************************************************************************)
(* The stage registry: a sequence of stage descriptors in the iteration    *)
(* order of the registry dict.  inputs is the declared list of consumed    *)
(* keys, outputs the declared produced keys, depends_on the explicit       *)
(* prerequisites (a class without one of the attributes reads as empty).   *)
(***************************************************************************)
RawKey == "raw_vtt"

RegNames(registry) == {registry[i].name : i \in 1..Len(registry)}

Stage(registry, name) ==
    registry[CHOOSE i \in 1..Len(registry) : registry[i].name = name]

noSelfBuildGraph(registry, enabled) ==
    LET keys == enabled \cap RegNames(registry)
        Producers(k) == {n \in RegNames(registry) \cap enabled : k \in Stage(registry, n).outputs}
    IN [s \in keys |->
          {dep \in Stage(registry, s).depends_on : dep \in keys /\ dep # s}
          \cup UNION {IF k = RawKey THEN {} ELSE {pr \in Producers(k) : pr \in keys /\ pr # s}
                      : k \in Range(Stage(registry, s).inputs)}]

\* _build_dependency_graph(registry, enabled): stage -> set of prerequisites
build_dependency_graph(registry, enabled) ==
    LET keys == enabled \cap RegNames(registry)
        Producers(k) == {n \in RegNames(registry) \cap enabled : k \in Stage(registry, n).outputs}
    IN [s \in keys |->
          {dep \in Stage(registry, s).depends_on : dep \in keys}
          \cup UNION {IF k = RawKey THEN {} ELSE {pr \in Producers(k) : pr \in keys /\ pr # s}
                      : k \in Range(Stage(registry, s).inputs)}]

\* _validate_stage_inputs(registry, enabled): the error list, one <<stage, key>>
\* per message, in registry order and then in the order of the inputs list
AvailableOutputs(registry, enabled) ==
    {RawKey} \cup UNION {registry[i].outputs : i \in {j \in 1..Len(registry) : registry[j].name \in enabled}}

RECURSIVE ValidateFrom(_, _, _)
ValidateFrom(registry, enabled, i) ==
    IF i > Len(registry) THEN <<>>
    ELSE LET st == registry[i]
             Unavailable(k) == k \notin AvailableOutputs(registry, enabled)
             mine == IF st.name \in enabled
                     THEN LET bad == SelectSeq(st.inputs, Unavailable)
                          IN [j \in 1..Len(bad) |-> <<st.name, bad[j]>>]
                     ELSE <<>>
         IN mine \o ValidateFrom(registry, enabled, i + 1)

noValidate(registry, enabled) == <<>>

validate_stage_inputs(registry, enabled) == ValidateFrom(registry, enabled, 1)

(***************************************************************************)
(* The configuration phase of process_pipeline (lines 485-518): from the   *)
(* registry and the enabled order to either a configuration error (the     *)
(* messages of the synthetic "config" log) or the final order with the     *)
(* dependency graph.                                                       *)
(***************************************************************************)
PlanPipeline(registry, enabled_order) ==
    LET enabled == Range(enabled_order)
        input_errors == validate_stage_inputs(registry, enabled)
        dep_graph == build_dependency_graph(registry, enabled)
        sched == toposort_respecting_order(enabled_order, dep_graph)
    IN IF input_errors # <<>>
       THEN [kind |-> "config_error", input_errors |-> input_errors,
             sched |-> [kind |-> "not_reached", order |-> <<>>, missing |-> <<>>],
             dep_graph |-> <<>>, order |-> <<>>]
       ELSE IF sched.kind # "ok"
       THEN [kind |-> "config_error", input_errors |-> <<>>,
             sched |-> sched, dep_graph |-> dep_graph, order |-> <<>>]
       ELSE [kind |-> "ok", input_errors |-> <<>>,
             sched |-> sched, dep_graph |-> dep_graph, order |-> sched.order]

\* lines 520-528: the index (1-based) of the first stage to run
resolve_start_idx(enabled_order, dep_graph, start_stage) ==
    IF start_stage # "" /\ start_stage \in Range(enabled_order)
    THEN LET prereqs == collect_prereqs(dep_graph, start_stage)
             candidates == Filter(enabled_order, prereqs \cup {start_stage})
         IN IF candidates # <<>> THEN Index(enabled_order, candidates[1])
            ELSE Index(enabled_order, start_stage)
    ELSE 1

(***************************************************************************)
(* Names the runner resolves when it is called.  process_pipeline builds   *)
(* its stage logs with StageLog(...) and its run context with              *)
(* RunContext(..., llm_config=...); Python looks the first up in the       *)
(* module namespace of pipeline.py (NameError when it is not bound) and    *)
(* checks the second against the dataclass fields (TypeError on an         *)
(* unexpected keyword argument).                                           *)
(***************************************************************************)
\* the names bound at module level in pipeline.py that process_pipeline calls
PipelineGlobals ==
    {"ensure_dirs", "read_config", "load_stage_registry", "read_json", "write_json",
     "PipelineResult", "RunContext", "Stage", "StageOutput", "LOGGER",
     "_validate_stage_inputs", "_build_dependency_graph",
     "_toposort_respecting_order", "_collect_prereqs", "_parse_iso_datetime_safe"}

NameBound(n) == n \in PipelineGlobals

\* the fields of the RunContext dataclass
RunContextFields ==
    {"incident_id", "trc_id", "incident", "trc", "data_dir", "incidents_dir",
     "people_path", "artifacts_dir", "start_dt"}

\* the keyword arguments process_pipeline passes to RunContext
RunContextKwargs ==
    {"incident_id", "trc_id", "incident", "trc", "data_dir", "incidents_dir",
     "people_path", "artifacts_dir", "llm_config", "start_dt"}

(***************************************************************************)
(* Documents.  The incident file holds one incident document or is absent  *)
(* (<< >>); a call document (trc) holds its output map as a function from  *)
(* keys to values.  Keywords are modelled as numbers, ordered as sorted()  *)
(* orders the strings.                                                     *)
(***************************************************************************)
DefaultIncident ==
    [title |-> "", keywords |-> <<>>, master_summary |-> "",
     pipeline_artifacts |-> <<>>, trcs |-> <<>>]

trc_id(start_time_iso) == "trc_" \o start_time_iso

NewTrc(start_time_iso, vtt_content) ==
    [trc_id |-> trc_id(start_time_iso), start_time |-> start_time_iso,
     original_filename |-> "", original_filepath |-> "", file_hash |-> "",
     status |-> "processing",
     pipeline_outputs |-> [k \in {RawKey} |-> vtt_content],
     pipeline_artifacts |-> <<>>]

\* read_json: the document of the file, the default when the file is absent
read_json(file, default) == IF file = <<>> THEN default ELSE file[1]

(***************************************************************************)
(* The text of a document.  json.dump(data, f, indent=2) writes the chunks *)
(* the encoder yields (json.encoder._make_iterencode), one f.write per     *)
(* chunk; a dict gives its keys in insertion order, which for the incident *)
(* is that of lines 419-425 and for a call document that of lines 435-445. *)
(* The model keeps the keys of a map and not their order: raw_vtt comes    *)
(* first and the other outputs follow in an order of the model's choosing. *)
(* An artifact map holds under each key the path of the artifact's file    *)
(* (lines 460-462, 469-471, 478-480).                                      *)
(***************************************************************************)
\* the incident every call of the model works on
incident_id == "INC1"

\* line 23
ARTIFACTS_DIR == "data/artifacts"

RECURSIVE Spaces(_)
Spaces(n) == IF n = 0 THEN "" ELSE " " \o Spaces(n - 1)

\* "\n" + _indent * _current_indent_level
newline_indent(level) == "\n" \o Spaces(2 * level)

\* ESCAPE_DCT of json.encoder for the characters a model string can hold
encode_char(c) ==
    IF c = "\"" THEN "\\\""
    ELSE IF c = "\\" THEN "\\\\"
    ELSE IF c = "\n" THEN "\\n"
    ELSE IF c = "\r" THEN "\\r"
    ELSE IF c = "\t" THEN "\\t"
    ELSE c

char(text, i) == SubSeq(text, i, i)

\* the characters a string cannot hold as they are: the quote, the backslash
\* and the control characters (the zero byte of a gap in the file among them)
Special == {"\"", "\\", "\n", "\r", "\t", "\f"}

\* the characters that are parts of a text by themselves
Structural == {"{", "}", "[", "]", ",", ":"}

\* the characters a reader of a text stops at
Marks == Special \cup Structural

\* a transcript long enough for its chunk to fill the text layer of the file
\* object: 8192 characters, none of them a mark
Block == "0123456789abcdef"

RECURSIVE Doubled(_, _)
Doubled(s, n) == IF n = 0 THEN s ELSE LET h == Doubled(s, n - 1) IN h \o h

LongVtt == Doubled(Block, 9)

Period == Len(Block)

\* the runs of Period characters found in a repeated Block: none holds a mark
PlainRuns == {SubSeq(Block \o Block, k, k + Period - 1) : k \in 1..Period}

\* the indices of the marks of a text, in order.  The text is taken in runs
\* of Period characters, and the characters of a run are looked at one by
\* one unless the run is one of PlainRuns.
marks(text) ==
    LET n == Len(text)
        End(b) == IF b * Period < n THEN b * Period ELSE n
        Marked(b) == SubSeq(text, (b - 1) * Period + 1, End(b)) \notin PlainRuns
        marked == SelectSeq([b \in 1..((n + Period - 1) \div Period) |-> b], Marked)
        At(j) == (marked[(j - 1) \div Period + 1] - 1) * Period + ((j - 1) % Period) + 1
        IsMark(i) == i <= n /\ char(text, i) \in Marks
    IN SelectSeq([j \in 1..(Period * Len(marked)) |-> At(j)], IsMark)

\* the characters of s, each replaced by its escape
RECURSIVE escape(_)
escape(s) ==
    LET at == marks(s)
    IN IF \A k \in 1..Len(at) : char(s, at[k]) \notin Special THEN s
       ELSE IF Len(s) = 1 THEN encode_char(s)
       ELSE LET h == Len(s) \div 2
            IN escape(SubSeq(s, 1, h)) \o escape(SubSeq(s, h + 1, Len(s)))

\* py_encode_basestring_ascii(s): the string in quotes, escaped
encoder(s) == "\"" \o escape(s) \o "\""

RECURSIVE Flatten(_, _)
Flatten(seqs, i) == IF i > Len(seqs) THEN <<>> ELSE seqs[i] \o Flatten(seqs, i + 1)

\* a key of a dict with the chunks of its value
Item(key, chunks) == [key |-> key, chunks |-> chunks]

\* _iterencode_dict: "{}" for an empty dict; else the opening, each key, ": "
\* and the chunks of its value, a separator between the items, the closing
iterencode_dict(items, level) ==
    IF items = <<>> THEN <<"{}">>
    ELSE LET item_separator == "," \o newline_indent(level + 1)
             ItemChunks(i) ==
                 (IF i = 1 THEN <<>> ELSE <<item_separator>>)
                     \o <<encoder(items[i].key), ": ">> \o items[i].chunks
         IN <<"{", newline_indent(level + 1)>>
                \o Flatten([i \in 1..Len(items) |-> ItemChunks(i)], 1)
                \o <<newline_indent(level), "}">>

\* _iterencode_list: "[]" for an empty list; else each value behind buf, the
\* opening first and the separator after it; a string goes out in one chunk
\* with buf, a dict after buf.  values[i] holds the chunks of value i.
iterencode_list(values, is_str, level) ==
    IF values = <<>> THEN <<"[]">>
    ELSE LET buf(i) == IF i = 1 THEN "[" \o newline_indent(level + 1)
                       ELSE "," \o newline_indent(level + 1)
             ValueChunks(i) ==
                 IF is_str THEN <<buf(i) \o values[i][1]>> ELSE <<buf(i)>> \o values[i]
         IN Flatten([i \in 1..Len(values) |-> ValueChunks(i)], 1)
                \o <<newline_indent(level), "]">>

\* the chunks of a dict of strings
iterencode_str_dict(keys, value(_), level) ==
    iterencode_dict([i \in 1..Len(keys) |-> Item(keys[i], <<encoder(value(keys[i]))>>)], level)

\* the chunks of a call document (lines 435-445), at the depth of the list
iterencode_trc(trc) ==
    LET Output(k) == trc.pipeline_outputs[k]
        Artifact(k) == trc.pipeline_artifacts[k]
        output_keys == (IF RawKey \in DOMAIN trc.pipeline_outputs THEN <<RawKey>> ELSE <<>>)
                           \o SetToSeq(DOMAIN trc.pipeline_outputs \ {RawKey})
    IN iterencode_dict(
          <<Item("trc_id", <<encoder(trc.trc_id)>>),
            Item("start_time", <<encoder(trc.start_time)>>),
            Item("original_filename", <<encoder(trc.original_filename)>>),
            Item("original_filepath", <<encoder(trc.original_filepath)>>),
            Item("file_hash", <<encoder(trc.file_hash)>>),
            Item("status", <<encoder(trc.status)>>),
            Item("pipeline_outputs", iterencode_str_dict(output_keys, Output, 3)),
            Item("pipeline_artifacts",
                 iterencode_str_dict(SetToSeq(DOMAIN trc.pipeline_artifacts), Artifact, 3))>>, 2)

\* the chunks of an incident document (lines 419-425)
iterencode(doc) ==
    LET Artifact(k) == doc.pipeline_artifacts[k]
    IN iterencode_dict(
          <<Item("incident_id", <<encoder(incident_id)>>),
            Item("title", <<encoder(doc.title)>>),
            Item("keywords",
                 iterencode_list([i \in 1..Len(doc.keywords) |->
                                     <<encoder(ToString(doc.keywords[i]))>>], TRUE, 1)),
            Item("master_summary", <<encoder(doc.master_summary)>>),
            Item("pipeline_artifacts",
                 iterencode_str_dict(SetToSeq(DOMAIN doc.pipeline_artifacts), Artifact, 1)),
            Item("trcs",
                 iterencode_list([i \in 1..Len(doc.trcs) |-> iterencode_trc(doc.trcs[i])],
                                 FALSE, 1))>>, 0)

\* the chunks from..to in one string
RECURSIVE Join(_, _, _)
Join(chunks, from, to) ==
    IF from > to THEN ""
    ELSE IF from = to THEN chunks[from]
    ELSE LET mid == (from + to) \div 2
         IN Join(chunks, from, mid) \o Join(chunks, mid + 1, to)

\* json.dumps(doc, indent=2): the text json.dump writes
json_dumps(doc) == LET chunks == iterencode(doc) IN Join(chunks, 1, Len(chunks))

(***************************************************************************)
(* The file object of write_json (lines 186-189).  path.open("w") gives a  *)
(* text layer over a buffered writer over the file: the text layer keeps   *)
(* what f.write gets until it holds ChunkSize characters, the writer keeps *)
(* what it is handed while that fits its buffer, and the rest goes to the  *)
(* file at once, so a long text reaches the file in parts, some while      *)
(* json.dump runs and the last when the with block closes the file.  A     *)
(* file object is the number of characters each layer holds and the        *)
(* lengths of the writes it has made to the file.                          *)
(***************************************************************************)
\* TextIOWrapper's chunk size
ChunkSize == 8192

\* the buffer of the writer: st_blksize of the file
BufferSize == 4096

\* line 188: the file object after open
NewFileObject == [pending |-> 0, buffer |-> 0, raw |-> <<>>]

\* BufferedWriter.write of n characters: kept when they fit the free part of
\* the buffer; else the buffer goes to the file, and the n characters after
\* it when they are more than a buffer holds
buffered_write(f, n) ==
    IF n <= BufferSize - f.buffer THEN [f EXCEPT !.buffer = @ + n]
    ELSE LET flushed == IF f.buffer = 0 THEN f.raw ELSE Append(f.raw, f.buffer)
         IN IF n > BufferSize THEN [f EXCEPT !.buffer = 0, !.raw = Append(flushed, n)]
            ELSE [f EXCEPT !.buffer = n, !.raw = flushed]

\* the text layer hands what it holds to the writer
writeflush(f) ==
    IF f.pending = 0 THEN f ELSE buffered_write([f EXCEPT !.pending = 0], f.pending)

\* TextIOWrapper.write of n characters: what is held is handed on first when
\* the two exceed ChunkSize, and all of it when ChunkSize is reached
text_write(f, n) ==
    LET kept == IF f.pending + n > ChunkSize THEN writeflush(f) ELSE f
        held == [kept EXCEPT !.pending = @ + n]
    IN IF held.pending >= ChunkSize THEN writeflush(held) ELSE held

\* f.write of the chunks from..to, one after the other
RECURSIVE WriteChunks(_, _, _, _)
WriteChunks(f, chunks, from, to) ==
    IF from > to THEN f
    ELSE IF from = to THEN text_write(f, Len(chunks[from]))
    ELSE LET mid == (from + to) \div 2
             half == WriteChunks(f, chunks, from, mid)
         IN \* the text layer holds less than ChunkSize after every write
            CASE half.pending < ChunkSize -> WriteChunks(half, chunks, mid + 1, to)

\* line 189, json.dump(data, f, indent=2): for chunk in iterable: f.write(chunk)
json_dump(f, data) == LET chunks == iterencode(data) IN WriteChunks(f, chunks, 1, Len(chunks))

\* the end of the with block: both layers are flushed; the lengths of all
\* writes made to the file
close(f) ==
    LET g == writeflush(f) IN IF g.buffer = 0 THEN g.raw ELSE Append(g.raw, g.buffer)

\* the lengths of the writes write_json(path, data) makes to the file
os_writes(data) == close(json_dump(NewFileObject, data))

RECURSIVE SumTo(_, _)
SumTo(lens, k) == IF k = 0 THEN 0 ELSE lens[k] + SumTo(lens, k - 1)

(***************************************************************************)
(* The incident file is absent (<< >>), holds the text json.dump gives for *)
(* a document (<<doc>>) or holds another text (<<Torn(text)>>, the empty   *)
(* text when just opened for writing).  json.loads reads a document from a *)
(* text when its parts are those of a document's text, whatever the        *)
(* whitespace between them, and raises JSONDecodeError otherwise.          *)
(***************************************************************************)
Torn(text) == [torn |-> text]

IsTorn(file) == file # <<>> /\ DOMAIN file[1] = {"torn"}

\* what the file holds
file_text(file) ==
    IF file = <<>> THEN "" ELSE IF IsTorn(file) THEN file[1].torn ELSE json_dumps(file[1])

\* line 188: path.open("w") creates the file or cuts it to length 0
open_w(file) == <<Torn("")>>

\* the zero byte a write beyond the end of the file leaves in the gap
NUL == "\f"

RECURSIVE Zeros(_)
Zeros(n) ==
    IF n = 0 THEN ""
    ELSE IF n = 1 THEN NUL
    ELSE LET h == Zeros(n \div 2) IN h \o h \o (IF n % 2 = 1 THEN NUL ELSE "")

\* write(2) of s at the offset of the file object: the characters there are
\* replaced, those before and behind stay
pwrite(text, offset, s) ==
    LET padded == IF Len(text) < offset THEN text \o Zeros(offset - Len(text)) ELSE text
    IN SubSeq(padded, 1, offset) \o s \o SubSeq(padded, offset + Len(s) + 1, Len(padded))

\* json.decoder.WHITESPACE: the characters skipped between the parts of a text
WHITESPACE == {" ", "\t", "\n", "\r"}

\* json.decoder.BACKSLASH, without the escapes of characters no string of
\* the model holds (b, f and u)
BACKSLASH == {"\"", "\\", "/", "n", "r", "t"}

\* the reader of a text between two marks: outside a string (end: the index
\* of the last character read) or in one (begin: its opening quote;
\* escaped: the index of the character behind the last backslash), with the
\* parts read; ok is FALSE when a character was met that no text of a
\* document holds there
ScanStart ==
    [ok |-> TRUE, in_string |-> FALSE, begin |-> 0, end |-> 0, escaped |-> 0,
     parts |-> <<>>]

\* the characters lo..hi of the text are spaces
blank(text, lo, hi) == \A i \in lo..hi : char(text, i) = " "

\* the reader at the mark of index p.  In a string (py_scanstring) the quote
\* ends it, a backslash takes the character behind it, which must be one of
\* BACKSLASH, and a control character is an error; outside (scan_once)
\* whitespace is passed, a quote begins a string, a structural character is
\* a part, and nothing else may stand there.
scan_mark(text, st, p) ==
    LET c == char(text, p)
        error == [st EXCEPT !.ok = FALSE]
    IN IF ~st.ok \/ p = st.escaped THEN st
       ELSE IF st.in_string
       THEN IF c = "\""
            THEN [st EXCEPT !.in_string = FALSE, !.end = p,
                            !.parts = Append(@, SubSeq(text, st.begin, p))]
            ELSE IF c = "\\"
            THEN IF p < Len(text) /\ char(text, p + 1) \in BACKSLASH
                 THEN [st EXCEPT !.escaped = p + 1] ELSE error
            ELSE IF c \in Structural THEN st
            ELSE error
       ELSE IF ~blank(text, st.end + 1, p - 1) THEN error
            ELSE IF c = "\"" THEN [st EXCEPT !.in_string = TRUE, !.begin = p]
            ELSE IF c \in Structural THEN [st EXCEPT !.end = p, !.parts = Append(@, c)]
            ELSE IF c \in WHITESPACE THEN [st EXCEPT !.end = p]
            ELSE error

\* the reader after the marks at[lo..hi], one after the other
RECURSIVE scan(_, _, _, _, _)
scan(text, at, lo, hi, st) ==
    IF lo > hi THEN st
    ELSE IF lo = hi THEN scan_mark(text, st, at[lo])
    ELSE LET mid == (lo + hi) \div 2
             half == scan(text, at, lo, mid, st)
         IN CASE half.ok \in BOOLEAN -> scan(text, at, mid + 1, hi, half)

\* the parts of a text, strings and structural characters, without the
\* whitespace between them; << >> for a text that has a character where no
\* text of a document has one
json_parts(text) ==
    LET at == marks(text)
        st == scan(text, at, 1, Len(at), ScanStart)
    IN IF st.ok /\ ~st.in_string /\ blank(text, st.end + 1, Len(text)) THEN st.parts
       ELSE <<>>

\* the character behind a backslash, decoded
decode_char(c) ==
    IF c = "n" THEN "\n" ELSE IF c = "r" THEN "\r" ELSE IF c = "t" THEN "\t" ELSE c

\* the content of a string part: the escapes replaced by their characters
RECURSIVE unescape(_)
unescape(s) ==
    LET IsBackslash(i) == char(s, i) = "\\"
        at == SelectSeq(marks(s), IsBackslash)
    IN IF at = <<>> THEN s
       ELSE SubSeq(s, 1, at[1] - 1) \o decode_char(char(s, at[1] + 1))
                \o unescape(SubSeq(s, at[1] + 2, Len(s)))

\* The values of an incident document by their place: a string, a list of
\* strings, a dict of strings, a call document, the list of them, the
\* incident.  "" for a key the document of lines 419-445 has not.
member_shape(shape, key) ==
    CASE shape = "strmap" -> "str"
      [] shape = "trc" ->
            (CASE key \in {"trc_id", "start_time", "original_filename",
                           "original_filepath", "file_hash", "status"} -> "str"
               [] key \in {"pipeline_outputs", "pipeline_artifacts"} -> "strmap"
               [] OTHER -> "")
      [] shape = "incident" ->
            (CASE key \in {"incident_id", "title", "master_summary"} -> "str"
               [] key = "keywords" -> "strs"
               [] key = "pipeline_artifacts" -> "strmap"
               [] key = "trcs" -> "trcs"
               [] OTHER -> "")
      [] OTHER -> ""

item_shape(shape) == IF shape = "trcs" THEN "trc" ELSE "str"

NoValue == [ok |-> FALSE, next |-> 0, val |-> <<>>]

Value(val, next) == [ok |-> TRUE, next |-> next, val |-> val]

is_string(part) == char(part, 1) = "\""

\* JSONDecoder.scan_once over the parts of a text.  what = "value": the
\* value of the shape that begins with part i, and the index behind it;
\* "items": the list whose values so far are held and whose next value
\* begins with part i (JSONArray); "members": the dict whose pairs so far are
\* held and whose next key is part i (JSONObject: a key given twice keeps
\* its last value).  NoValue when the parts from i on are none of that.
RECURSIVE decode(_, _, _, _, _)
decode(parts, i, what, shape, held) ==
    IF what = "value"
    THEN IF i > Len(parts) \/ shape = "" THEN NoValue
         ELSE IF shape = "str"
         THEN IF is_string(parts[i])
              THEN Value(unescape(SubSeq(parts[i], 2, Len(parts[i]) - 1)), i + 1)
              ELSE NoValue
         ELSE IF i = Len(parts) \/ parts[i] # (IF shape \in {"strs", "trcs"} THEN "[" ELSE "{")
         THEN NoValue
         ELSE IF parts[i + 1] = (IF shape \in {"strs", "trcs"} THEN "]" ELSE "}")
         THEN Value(<<>>, i + 2)
         ELSE IF shape \in {"strs", "trcs"}
         THEN decode(parts, i + 1, "items", item_shape(shape), <<>>)
         ELSE decode(parts, i + 1, "members", shape, <<>>)
    ELSE LET is_key == i + 2 <= Len(parts) /\ is_string(parts[i]) /\ parts[i + 1] = ":"
             key == unescape(SubSeq(parts[i], 2, Len(parts[i]) - 1))
             value == IF what = "items" THEN decode(parts, i, "value", shape, <<>>)
                      ELSE IF is_key
                      THEN decode(parts, i + 2, "value", member_shape(shape, key), <<>>)
                      ELSE NoValue
             all == IF what = "items" THEN Append(held, value.val)
                    ELSE [k \in DOMAIN held \cup {key} |->
                             IF k = key THEN value.val ELSE held[k]]
         IN IF ~value.ok \/ value.next > Len(parts) THEN NoValue
            ELSE IF parts[value.next] = ","
            THEN decode(parts, value.next + 1, what, shape, all)
            ELSE IF parts[value.next] = (IF what = "items" THEN "]" ELSE "}")
            THEN Value(all, value.next + 1)
            ELSE NoValue

\* the keys of the documents of lines 419-425 and 435-445
IncidentKeys ==
    {"incident_id", "title", "keywords", "master_summary", "pipeline_artifacts", "trcs"}

TrcKeys ==
    {"trc_id", "start_time", "original_filename", "original_filepath", "file_hash",
     "status", "pipeline_outputs", "pipeline_artifacts"}

\* the keywords of the model, as the texts hold them
Numerals == {ToString(n) : n \in 0..9}

\* a decoded value as a file of the model: <<doc>> when it is an incident
\* document with all its keys and nothing follows it, << >> otherwise
as_document(value, end) ==
    IF /\ value.ok
       /\ value.next = end
       /\ DOMAIN value.val = IncidentKeys
       /\ value.val.incident_id = incident_id
       /\ \A i \in 1..Len(value.val.keywords) : value.val.keywords[i] \in Numerals
       /\ \A i \in 1..Len(value.val.trcs) : DOMAIN value.val.trcs[i] = TrcKeys
    THEN <<[title |-> value.val.title,
            keywords |-> [i \in 1..Len(value.val.keywords) |->
                             CHOOSE n \in 0..9 : ToString(n) = value.val.keywords[i]],
            master_summary |-> value.val.master_summary,
            pipeline_artifacts |-> value.val.pipeline_artifacts,
            trcs |-> value.val.trcs]>>
    ELSE <<>>

\* the document its parts make up
json_document(parts) ==
    as_document(decode(parts, 1, "value", "incident", <<>>), Len(parts) + 1)

\* json.loads(text) as a file of the model: <<doc>> for the text of an
\* incident document, whatever the whitespace between its parts; << >> for
\* any other text, from which JSONDecodeError is raised
json_loads(text) == json_document(json_parts(text))

\* the file that holds text, from which json.loads reads loaded: a document
\* when the text is the one json.dump gives for it
holding(text, loaded) ==
    IF loaded # <<>> /\ json_dumps(loaded[1]) = text THEN loaded ELSE <<Torn(text)>>

\* the file holding text (the text json.dump gives for a document ends with
\* the closing of the incident's dict)
file_holding(text) ==
    holding(text, IF Len(text) > 2 /\ SubSeq(text, Len(text) - 1, Len(text)) = "\n}"
                  THEN json_loads(text) ELSE <<>>)

\* the file holding text after write number k of the writes, of lengths
\* lens, that put the text dumped of data into it
write_part(text, data, dumped, lens, k) ==
    LET offset == SumTo(lens, k - 1)
        written == pwrite(text, offset, SubSeq(dumped, offset + 1, offset + lens[k]))
    IN IF written = dumped THEN <<data>> ELSE file_holding(written)

\* write number k of write_json(path, data) into the file
os_write(file, data, k) ==
    write_part(file_text(file), data, json_dumps(data), os_writes(data), k)

(***************************************************************************)
(* The file object of read_json (lines 134-138).  path.open("r") gives a   *)
(* text layer over a buffered reader over the file, and json.load calls    *)
(* f.read(), which reads the file to its end (FileIO.readall): the size of *)
(* the file is taken once, and then the file is read at the file object's  *)
(* own offset, as many characters as the buffer has room for, and the      *)
(* buffer grows when it is full, until a read gives nothing.               *)
(***************************************************************************)
\* the buffer of readall for a file whose size is not known, or is 0
SMALLCHUNK == 8192

\* the size from which on the buffer grows by an eighth
LARGE_BUFFER_CUTOFF_SIZE == 65536

\* the buffer of readall at the start, for a file of size end read from 0
readall_bufsize(end) == IF end > 0 THEN end + 1 ELSE SMALLCHUNK

\* new_buffersize: the size of the full buffer of currentsize after growing
new_buffersize(currentsize) ==
    LET addend == IF currentsize > LARGE_BUFFER_CUTOFF_SIZE THEN currentsize \div 8
                  ELSE 256 + currentsize
    IN currentsize + (IF addend < SMALLCHUNK THEN SMALLCHUNK ELSE addend)

\* read(2) of at most n characters at offset: what the file holds there
os_read(text, offset, n) ==
    IF offset >= Len(text) THEN ""
    ELSE SubSeq(text, offset + 1, IF offset + n < Len(text) THEN offset + n ELSE Len(text))

\* next((t for t in trcs if t["trc_id"] == tid), None): position of the first
\* call document with that id, 0 for None
FindTrc(trcs, tid) ==
    IF \E i \in 1..Len(trcs) : trcs[i].trc_id = tid
    THEN CHOOSE i \in 1..Len(trcs) :
            /\ trcs[i].trc_id = tid
            /\ \A j \in 1..(i-1) : trcs[j].trc_id # tid
    ELSE 0

RECURSIVE SortedSet(_)
\* sorted(S) for a set of keywords
SortedSet(S) ==
    IF S = {} THEN <<>>
    ELSE LET m == CHOOSE x \in S : \A y \in S : x <= y
         IN <<m>> \o SortedSet(S \ {m})

concat_keywords(inc_keywords, new_keywords) == inc_keywords \o new_keywords

\* lines 587-590: the incident's keywords after merging a stage's keywords
merge_keywords(inc_keywords, new_keywords) ==
    SortedSet(Range(inc_keywords) \cup Range(new_keywords))

\* lines 584-595: keywords are merged, every other updated field overrides
merge_incident_updates(incident, updates) ==
    [k \in DOMAIN incident |->
        IF k \notin DOMAIN updates THEN incident[k]
        ELSE IF k = "keywords" THEN merge_keywords(incident.keywords, updates[k])
        ELSE updates[k]]

\* summarisation.py line 77 (and 53): titles longer than this are cut
TitleLimit == 60

\* the "..." appended to a cut title; texts are sequences of characters
Ellipsis == <<".", ".", ".">>

\* summarisation.py lines 74-77 (and 50-53): the title a summarisation run
\* infers from the call's noise_reduction text; <<>> stands for both None and ""
summarisation_title(incident, text) ==
    IF incident.title = <<>>
    THEN IF Len(text) > TitleLimit THEN SubSeq(text, 1, TitleLimit) \o Ellipsis ELSE text
    ELSE <<>>

unguardedTitleUpdates(incident, text) ==
    LET title == IF Len(text) > TitleLimit THEN SubSeq(text, 1, TitleLimit) \o Ellipsis ELSE text
    IN IF title # <<>> THEN [k \in {"title"} |-> title] ELSE <<>>

\* summarisation.py lines 80-82 (and 55-57): the incident updates of the run
summarisation_incident_updates(incident, text) ==
    LET title == summarisation_title(incident, text)
    IN IF title # <<>> /\ incident.title = <<>> THEN [k \in {"title"} |-> title] ELSE <<>>

\* str.title() on the raw names of the model
Title(raw_name) ==
    CASE raw_name = "bob" -> "Bob"
      [] raw_name = "amy" -> "Amy"
      [] OTHER -> raw_name

\* lines 604-613: the record a person is created with
NewPerson(raw_name, delta) ==
    [raw_name |-> raw_name,
     display_name |-> IF delta.display_name = "" THEN Title(raw_name)
                      ELSE delta.display_name,
     role_override |-> "None",
     discovered_roles |-> <<>>, discovered_knowledge |-> <<>>]

overwrite_people(ppl, updates) ==
    [n \in DOMAIN ppl \cup DOMAIN updates |->
        IF n \notin DOMAIN updates THEN ppl[n]
        ELSE LET person == IF n \in DOMAIN ppl THEN ppl[n]
                           ELSE NewPerson(n, updates[n])
             IN [person EXCEPT
                    !.discovered_roles = updates[n].discovered_roles,
                    !.discovered_knowledge = updates[n].discovered_knowledge]]

reseed_people(ppl, updates) ==
    [n \in DOMAIN ppl \cup DOMAIN updates |->
        IF n \notin DOMAIN updates THEN ppl[n]
        ELSE LET person == IF n \in DOMAIN ppl
                           THEN [ppl[n] EXCEPT !.display_name = NewPerson(n, updates[n]).display_name]
                           ELSE NewPerson(n, updates[n])
             IN [person EXCEPT
                    !.discovered_roles = @ \o updates[n].discovered_roles,
                    !.discovered_knowledge = @ \o updates[n].discovered_knowledge]]

\* lines 602-618: the people directory after merging a stage's deltas
merge_people(ppl, updates) ==
    [n \in DOMAIN ppl \cup DOMAIN updates |->
        IF n \notin DOMAIN updates THEN ppl[n]
        ELSE LET person == IF n \in DOMAIN ppl THEN ppl[n]
                           ELSE NewPerson(n, updates[n])
             IN [person EXCEPT
                    !.discovered_roles = @ \o updates[n].discovered_roles,
                    !.discovered_knowledge = @ \o updates[n].discovered_knowledge]]

(***************************************************************************)
(* The result of process_pipeline: a PipelineResult that was returned, or  *)
(* the exception that left the function.                                   *)
(***************************************************************************)
NoResult ==
    [kind |-> "none", success |-> FALSE, failed_stage |-> "", stage_logs |-> <<>>,
     exception |-> ""]

Returned(success, failed_stage, stage_logs) ==
    [kind |-> "returned", success |-> success, failed_stage |-> failed_stage,
     stage_logs |-> stage_logs, exception |-> ""]

Raised(exception) ==
    [kind |-> "raised", success |-> FALSE, failed_stage |-> "", stage_logs |-> <<>>,
     exception |-> exception]

\* the stage log entry the call StageLog(stage, status, ...) is written to build
LogEntry(stage, status) == [stage |-> stage, status |-> status]

\* the local state of a call of process_pipeline before it starts
IdleRun ==
    [pc |-> "idle", vtt_content |-> "", start_time_iso |-> "", start_stage |-> "",
     incident |-> DefaultIncident, trc_idx |-> 0,
     input_errors |-> <<>>, enabled_order |-> <<>>, dep_graph |-> <<>>,
     start_idx |-> 0, idx |-> 0, stage_logs |-> <<>>, invoked |-> <<>>,
     result |-> NoResult, before |-> <<>>, handler |-> "", resume |-> "", written |-> 0,
     bufsize |-> 0, read_text |-> "", dumped |-> "", lens |-> <<>>]

\* lines 485-489: the configured order without the stages switched off
enabled_order(conf) == Filter(conf.pipeline_order, Range(conf.pipeline_order) \ conf.disabled)

\* the call ends: result is what the caller gets
EndRun(r, result) == [r EXCEPT !.pc = "done", !.result = result]

\* line 480: the key save_incident_artifact_text records an incident artifact
\* under
incident_artifact_key(key) == key \o "_llm_output"

\* lines 458-460 and 467-469: str(file_path) of a call's artifact, suffix
\* ".txt" for a text and ".json" for a JSON artifact
trc_artifact_path(tid, key, suffix) ==
    ARTIFACTS_DIR \o "/" \o incident_id \o "/" \o tid \o "/" \o key \o suffix

\* lines 476-478: str(file_path) of an incident's text artifact
incident_artifact_path(key) ==
    ARTIFACTS_DIR \o "/" \o incident_id \o "/" \o key \o ".txt"

\* artifacts[key] = str(file_path) for every key of file_paths
record_artifacts(artifacts, file_paths) ==
    [k \in DOMAIN artifacts \cup DOMAIN file_paths |->
        IF k \in DOMAIN file_paths THEN file_paths[k] ELSE artifacts[k]]

\* lines 574-630: the stage returned out; its result is persisted and merged,
\* then the Completed entry is built (inside the try: a failure to build it
\* reaches the handler of line 631, which builds a Failed entry the same way)
PersistStageOutput(r, file, ppl, stage_name, out) ==
    LET trc == r.incident.trcs[r.trc_idx]
        outputs == [k \in DOMAIN trc.pipeline_outputs \cup DOMAIN out.trc_outputs |->
                       IF k \in DOMAIN out.trc_outputs THEN out.trc_outputs[k]
                       ELSE trc.pipeline_outputs[k]]
        text_paths == [k \in out.trc_artifacts |-> trc_artifact_path(trc.trc_id, k, ".txt")]
        json_paths == [k \in out.trc_artifacts_json |->
                          trc_artifact_path(trc.trc_id, k, ".json")]
        \* lines 579-582: the text artifacts, then the JSON artifacts
        artifacts == record_artifacts(record_artifacts(trc.pipeline_artifacts, text_paths),
                                      json_paths)
        trc2 == [trc EXCEPT !.pipeline_outputs = outputs,
                            !.pipeline_artifacts = artifacts]
        inc1 == [r.incident EXCEPT !.trcs[r.trc_idx] = trc2]
        inc2 == merge_incident_updates(inc1, out.incident_updates)
        \* lines 598-599: the path is that of the stage's key, the key recorded
        \* the one with the suffix
        incident_artifacts ==
            [k \in DOMAIN inc2.pipeline_artifacts
                      \cup {incident_artifact_key(a) : a \in out.incident_artifacts} |->
                IF \E a \in out.incident_artifacts : incident_artifact_key(a) = k
                THEN incident_artifact_path(
                        CHOOSE a \in out.incident_artifacts : incident_artifact_key(a) = k)
                ELSE inc2.pipeline_artifacts[k]]
        inc3 == [inc2 EXCEPT !.pipeline_artifacts = incident_artifacts]
        written == \/ DOMAIN out.trc_outputs # {}
                   \/ out.trc_artifacts # {}
                   \/ out.trc_artifacts_json # {}
                   \/ DOMAIN out.incident_updates # {}
                   \/ out.incident_artifacts # {}
        ppl2 == IF DOMAIN out.people_directory_updates # {}
                THEN merge_people(ppl, out.people_directory_updates) ELSE ppl
        ran == [r EXCEPT !.incident = inc3, !.invoked = Append(@, stage_name)]
    IN [run |-> IF NameBound("StageLog")
                THEN [ran EXCEPT !.idx = @ + 1,
                                 !.stage_logs = Append(@, LogEntry(stage_name, "Completed"))]
                ELSE EndRun(ran, Raised("NameError")),
        incident_file |-> IF written THEN <<inc3>> ELSE file,
        people_file |-> ppl2]

\* lines 530-643: one iteration of the loop over enabled_order[start_idx:]
run_stage(r, file, ppl, registry) ==
    LET stage_name == r.enabled_order[r.idx]
        trc == r.incident.trcs[r.trc_idx]
        Ends(rr, res) == [run |-> EndRun(rr, res), incident_file |-> file,
                          people_file |-> ppl]
        failure == IF NameBound("StageLog")
                   THEN Returned(FALSE, stage_name,
                                 Append(r.stage_logs, LogEntry(stage_name, "Failed")))
                   ELSE Raised("NameError")
    IN IF stage_name \notin RegNames(registry)
       THEN IF NameBound("StageLog")
            THEN [run |-> [r EXCEPT !.idx = @ + 1,
                                    !.stage_logs = Append(@, LogEntry(stage_name, "Skipped"))],
                  incident_file |-> file, people_file |-> ppl]
            ELSE Ends(r, Raised("NameError"))
       ELSE LET stage == Stage(registry, stage_name)
                Absent(k) == k \notin DOMAIN trc.pipeline_outputs
                missing_inputs == SelectSeq(stage.inputs, Absent)
            IN IF missing_inputs # <<>> THEN Ends(r, failure)
               ELSE IF ~(RunContextKwargs \subseteq RunContextFields)
               THEN Ends(r, Raised("TypeError"))
               ELSE IF stage.run.raises
               THEN Ends([r EXCEPT !.invoked = Append(@, stage_name)], failure)
               ELSE PersistStageOutput(r, file, ppl, stage_name, stage.run)

(***************************************************************************)
(* The configurations the runner is exercised on: a registry of the chain  *)
(* parse -> enhance -> summarize (enhance may raise, parse may list        *)
(* summarize in depends_on), an order over the stage names and one         *)
(* unregistered name, and the stages switched off.                         *)
(***************************************************************************)
NoOutput ==
    [raises |-> FALSE, trc_outputs |-> <<>>, trc_artifacts |-> {},
     trc_artifacts_json |-> {},
     incident_updates |-> <<>>, incident_artifacts |-> {},
     people_directory_updates |-> <<>>]

RunRegistry(enhance_raises, parse_deps) ==
    << [name |-> "parse", inputs |-> <<RawKey>>, outputs |-> {"parsed"},
        depends_on |-> parse_deps,
        run |-> [NoOutput EXCEPT !.trc_outputs = [k \in {"parsed"} |-> "parse"]]],
       [name |-> "enhance", inputs |-> <<"parsed">>, outputs |-> {"enhanced"},
        depends_on |-> {},
        run |-> [NoOutput EXCEPT !.raises = enhance_raises,
                                 !.trc_outputs = [k \in {"enhanced"} |-> "enhance"]]],
       [name |-> "summarize", inputs |-> <<"enhanced">>, outputs |-> {"summary"},
        depends_on |-> {},
        run |-> [NoOutput EXCEPT
                    !.trc_outputs = [k \in {"summary"} |-> "summarize"],
                    !.trc_artifacts = {"summary"},
                    !.trc_artifacts_json = {"summary_llm_output"},
                    !.incident_artifacts = {"master_summary_raw"},
                    !.incident_updates = [k \in {"keywords", "title"} |->
                                             IF k = "keywords" THEN <<2, 1>> ELSE "T"],
                    !.people_directory_updates =
                        [n \in {"bob"} |-> [display_name |-> "",
                                            discovered_roles |-> <<"lead">>,
                                            discovered_knowledge |-> <<>>]]]] >>

\* the chain with an enhance stage that reads the key it writes itself
SelfFedRegistry ==
    [i \in 1..3 |->
        IF i = 2 THEN [RunRegistry(FALSE, {})[i] EXCEPT !.inputs = <<"enhanced">>]
        ELSE RunRegistry(FALSE, {})[i]]

RunRegistries ==
    {RunRegistry(e, d) : e \in BOOLEAN, d \in {{}, {"summarize"}}} \cup {SelfFedRegistry}

Permutations3(S) == {s \in [1..3 -> S] : Range(s) = S}

RunOrders == SeqsUpTo(Names \cup {"unknown"}, 2) \cup Permutations3(Names)

RunConfigs ==
    {[pipeline_order |-> o, disabled |-> d, registry |-> reg] :
        o \in RunOrders, d \in {{}, {"enhance"}}, reg \in RunRegistries}

\* the arguments of a call
VttContents == {"v1", "v2"}
StartTimes == {"t1", "t2"}
StartStages == {"", "enhance", "summarize"}

\* number of calls of process_pipeline in a behaviour
MaxRuns == 2

(***************************************************************************)
(* process_uploaded_files (app.py), the caller of process_pipeline for an  *)
(* uploaded file: when a call document of the upload's start time exists   *)
(* and the user has confirmed, it writes the uploaded content and its hash *)
(* into that document (385-395), then calls process_pipeline (406), and    *)
(* after a success result records where the upload was saved (408-421).    *)
(***************************************************************************)
\* hashlib.sha256(content).hexdigest(): one digest per content
sha256(content) == "sha256:" \o content

\* save_name, from the incident id and the time token of the file name
save_name(start_iso) == "INC-" \o start_iso \o ".vtt"

\* str(save_path)
save_path(start_iso) == "data/uploads/INC/" \o save_name(start_iso)

\* next((t for t in trcs if t.get("start_time") == start_iso), None)
FindByStartTime(trcs, start_iso) ==
    IF \E i \in 1..Len(trcs) : trcs[i].start_time = start_iso
    THEN CHOOSE i \in 1..Len(trcs) :
            /\ trcs[i].start_time = start_iso
            /\ \A j \in 1..(i-1) : trcs[j].start_time # start_iso
    ELSE 0

\* the upload handler has got a success result and has not recorded it yet
UploadPending ==
    /\ run.pc = "done"
    /\ run.handler = "upload"
    /\ run.result.kind = "returned"
    /\ run.result.success

\* no call of process_pipeline is running and no handler is in the middle
AtRest == run.pc \in {"idle", "done"} /\ ~UploadPending

\* app.py 346-402: look the call document up by start time, overwrite its
\* raw_vtt and file_hash when there is one, save the upload
Upload(content, start_iso) ==
    /\ AtRest
    /\ runs < MaxRuns
    /\ LET inc_doc == read_json(incident_file, DefaultIncident)
           match == FindByStartTime(inc_doc.trcs, start_iso)
       IN incident_file' =
             IF match = 0 THEN incident_file
             ELSE <<[inc_doc EXCEPT !.trcs[match].pipeline_outputs[RawKey] = content,
                                    !.trcs[match].file_hash = sha256(content)]>>
    /\ run' = [IdleRun EXCEPT !.pc = "upload", !.vtt_content = content,
                              !.start_time_iso = start_iso, !.handler = "upload"]
    /\ UNCHANGED <<config, people_file, runs, fIn, fOut>>

\* app.py 408-421: after a success result, write the name, the path and the
\* hash of the upload into the call document of result.trc_id
UploadRecord ==
    /\ UploadPending
    /\ LET inc == read_json(incident_file, DefaultIncident)
           i == FindTrc(inc.trcs, trc_id(run.start_time_iso))
       IN incident_file' =
             <<[inc EXCEPT !.trcs[i].original_filename = save_name(run.start_time_iso),
                           !.trcs[i].original_filepath = save_path(run.start_time_iso),
                           !.trcs[i].file_hash = sha256(run.vtt_content)]>>
    /\ run' = [run EXCEPT !.handler = "uploaded"]
    /\ UNCHANGED <<config, people_file, runs, fIn, fOut>>

(***************************************************************************)
(* process_pipeline, one call after the other.                             *)
(***************************************************************************)
BeginOverwrite(vtt_content, start_time_iso, start_stage) ==
    /\ IF run.pc = "upload"
       THEN <<vtt_content, start_time_iso, start_stage>>
               = <<run.vtt_content, run.start_time_iso, "">>
       ELSE AtRest
    /\ runs < MaxRuns
    /\ LET incident == read_json(incident_file, DefaultIncident)
           found == FindTrc(incident.trcs, trc_id(start_time_iso))
           created == [incident EXCEPT !.trcs = Append(@, NewTrc(start_time_iso, vtt_content))]
           rewritten == [incident EXCEPT !.trcs[found].pipeline_outputs[RawKey] = vtt_content]
       IN /\ run' = [IdleRun EXCEPT !.pc = "configure", !.vtt_content = vtt_content,
                        !.start_time_iso = start_time_iso, !.start_stage = start_stage,
                        !.incident = IF found = 0 THEN created ELSE rewritten,
                        !.trc_idx = IF found = 0 THEN Len(created.trcs) ELSE found,
                        !.before = incident_file,
                        !.handler = IF run.pc = "upload" THEN "upload" ELSE ""]
          /\ incident_file' = IF found = 0 THEN <<created>> ELSE <<rewritten>>
    /\ runs' = runs + 1
    /\ UNCHANGED <<config, people_file, fIn, fOut>>

\* lines 410-448: load the incident, find or create the call document.  The
\* call comes from the upload handler (app.py 406, with what it uploaded and
\* no start stage) or from a caller at rest.
Begin(vtt_content, start_time_iso, start_stage) ==
    /\ IF run.pc = "upload"
       THEN <<vtt_content, start_time_iso, start_stage>>
               = <<run.vtt_content, run.start_time_iso, "">>
       ELSE AtRest
    /\ runs < MaxRuns
    /\ LET incident == read_json(incident_file, DefaultIncident)
           found == FindTrc(incident.trcs, trc_id(start_time_iso))
           created == [incident EXCEPT
                          !.trcs = Append(@, NewTrc(start_time_iso, vtt_content))]
       IN /\ run' = [IdleRun EXCEPT
                        !.pc = "configure",
                        !.vtt_content = vtt_content,
                        !.start_time_iso = start_time_iso,
                        !.start_stage = start_stage,
                        !.incident = IF found = 0 THEN created ELSE incident,
                        !.trc_idx = IF found = 0 THEN Len(created.trcs) ELSE found,
                        !.before = incident_file,
                        !.handler = IF run.pc = "upload" THEN "upload" ELSE ""]
          /\ incident_file' = IF found = 0 THEN <<created>> ELSE incident_file
    /\ runs' = runs + 1
    /\ UNCHANGED <<config, people_file, fIn, fOut>>

\* lines 485-528: validate, schedule, resolve the start index
Configure ==
    /\ run.pc = "configure"
    /\ LET plan == PlanPipeline(config.registry, enabled_order(config))
           start == resolve_start_idx(plan.order, plan.dep_graph, run.start_stage)
       IN run' = IF plan.kind = "config_error"
                 THEN EndRun([run EXCEPT !.input_errors = plan.input_errors],
                             IF NameBound("StageLog")
                             THEN Returned(FALSE, "config", <<LogEntry("config", "Failed")>>)
                             ELSE Raised("NameError"))
                 ELSE [run EXCEPT !.pc = "loop", !.enabled_order = plan.order,
                                  !.dep_graph = plan.dep_graph,
                                  !.start_idx = start, !.idx = start]
    /\ UNCHANGED <<config, incident_file, people_file, runs, fIn, fOut>>

\* lines 530-643: the next stage of the order
StageStep ==
    /\ run.pc = "loop"
    /\ run.idx <= Len(run.enabled_order)
    /\ LET step == run_stage(run, incident_file, people_file, config.registry)
       IN /\ run' = step.run
          /\ incident_file' = step.incident_file
          /\ people_file' = step.people_file
    /\ UNCHANGED <<config, runs, fIn, fOut>>

FinishNamingStage ==
    /\ run.pc = "loop"
    /\ run.idx > Len(run.enabled_order)
    /\ LET incident == [run.incident EXCEPT !.trcs[run.trc_idx].status = "processed"]
       IN /\ run' = EndRun([run EXCEPT !.incident = incident],
                           Returned(TRUE, "config", run.stage_logs))
          /\ incident_file' = <<incident>>
    /\ UNCHANGED <<config, people_file, runs, fIn, fOut>>

\* lines 645-653: the loop is over; mark the call processed and return
Finish ==
    /\ run.pc = "loop"
    /\ run.idx > Len(run.enabled_order)
    /\ LET incident == [run.incident EXCEPT !.trcs[run.trc_idx].status = "processed"]
       IN /\ run' = EndRun([run EXCEPT !.incident = incident],
                           Returned(TRUE, "None", run.stage_logs))
          /\ incident_file' = <<incident>>
    /\ UNCHANGED <<config, people_file, runs, fIn, fOut>>

\* the variables of the pure-function specifications, unused by the runner
NoCall == [fn |-> "none"]

\* the variables of the runner, at rest in the pure-function specifications
RunnerAtRest ==
    /\ config = [pipeline_order |-> <<>>, disabled |-> {}, registry |-> <<>>]
    /\ incident_file = <<>>
    /\ people_file = <<>>
    /\ run = IdleRun
    /\ runs = 0

runnerVars == <<config, incident_file, people_file, run, runs>>

Init ==
    /\ config \in RunConfigs
    /\ incident_file = <<>>
    /\ people_file = <<>>
    /\ run = IdleRun
    /\ runs = 0
    /\ fIn = NoCall
    /\ fOut = <<>>

Next ==
    \/ \E v \in VttContents, t \in StartTimes, s \in StartStages : Begin(v, t, s)
    \/ Configure
    \/ StageStep
    \/ Finish
    \/ \E v \in VttContents, t \in StartTimes : Upload(v, t)
    \/ UploadRecord

Spec == Init /\ [][Next]_vars

(***************************************************************************)
(* The scheduler alone: Init draws a preference order and a prerequisite   *)
(* map as _build_dependency_graph can return one for that order (its keys  *)
(* are enabled stages, every prerequisite is a key), SchedApply calls the  *)
(* scheduler.                                                              *)
(***************************************************************************)
SchedOrders == SeqsUpTo(Names, MaxOrderLen)

ClosedGraphs(D) == [D -> SUBSET D]

SchedInit ==
    /\ \E order \in SchedOrders :
         \E D \in SUBSET Range(order) :
           \E graph \in ClosedGraphs(D) :
             fIn = [fn |-> "toposort", order |-> order, graph |-> graph]
    /\ fOut = <<>>
    /\ RunnerAtRest

SchedApply ==
    /\ fIn.fn = "toposort"
    /\ fOut = <<>>
    /\ fOut' = <<toposort_respecting_order(fIn.order, fIn.graph)>>
    /\ UNCHANGED <<fIn, runnerVars>>

SchedNext == SchedApply

\* the scheduler's result for the drawn order and map, once it has returned
SchedDone == fOut # <<>>

SchedOut == fOut[1]

SchedSpec == SchedInit /\ [][SchedNext]_vars

(***************************************************************************)
(* The configuration phase as a function: Init draws a registry of three   *)
(* stages and an enabled order, PlanApply runs the validator, the graph    *)
(* builder and the scheduler on them.                                      *)
(***************************************************************************)
PlanInputs == {<<>>, <<RawKey>>, <<"parsed">>, <<"enhanced">>}

\* what a stage may declare as outputs: nothing or one key; enhance and
\* summarize may both declare "enhanced"
PlanOutputs == [n \in Names |->
                  IF n = "parse" THEN {{}, {"parsed"}} ELSE {{}, {"enhanced"}}]

\* the explicit prerequisite a stage may declare: the next stage of the ring
PlanNextOf == [n \in Names |->
                 CASE n = "parse" -> "enhance"
                   [] n = "enhance" -> "summarize"
                   [] OTHER -> "parse"]

PlanDescriptors(n) ==
    {[name |-> n, inputs |-> i, outputs |-> o, depends_on |-> d] :
        i \in PlanInputs, o \in PlanOutputs[n], d \in {{}, {PlanNextOf[n]}}}

PlanRegistries ==
    {<<a, b, c>> : a \in PlanDescriptors("parse"), b \in PlanDescriptors("enhance"),
                   c \in PlanDescriptors("summarize")}

\* longest enabled order of a drawn configuration
MaxPlanLen == 4

PlanOrders == SeqsUpTo(Names, MaxPlanLen)

PlanInit ==
    /\ \E registry \in PlanRegistries :
         \E order \in PlanOrders :
           fIn = [fn |-> "plan", registry |-> registry, order |-> order]
    /\ fOut = <<>>
    /\ RunnerAtRest

PlanApply ==
    /\ fIn.fn = "plan"
    /\ fOut = <<>>
    /\ fOut' = <<PlanPipeline(fIn.registry, fIn.order)>>
    /\ UNCHANGED <<fIn, runnerVars>>

PlanNext == PlanApply

PlanDone == fOut # <<>>

PlanOut == fOut[1]

PlanSpec == PlanInit /\ [][PlanNext]_vars

(***************************************************************************)
(* The keyword merge as a function: Init draws the incident's keyword list *)
(* (as the merge leaves one: sorted, without repeats) and the keyword list *)
(* of a stage result, MergeApply merges that same result in, twice.        *)
(***************************************************************************)
\* the keywords are 1..MaxKw
MaxKw == 3

\* longest keyword list of a stage result
MaxKwLen == 2

MergeInit ==
    /\ \E existing \in SUBSET (1..MaxKw) :
         \E update \in SeqsUpTo(1..MaxKw, MaxKwLen) :
           fIn = [fn |-> "merge", keywords |-> SortedSet(existing), update |-> update]
    /\ fOut = <<>>
    /\ RunnerAtRest

MergeApply ==
    /\ fIn.fn = "merge"
    /\ Len(fOut) < 2
    /\ LET current == IF fOut = <<>> THEN fIn.keywords ELSE fOut[Len(fOut)]
           incident == [DefaultIncident EXCEPT !.keywords = current]
           updates == [k \in {"keywords"} |-> fIn.update]
       IN fOut' = Append(fOut, merge_incident_updates(incident, updates).keywords)
    /\ UNCHANGED <<fIn, runnerVars>>

MergeNext == MergeApply

MergeSpec == MergeInit /\ [][MergeNext]_vars

(***************************************************************************)
(* The people-directory merge as a function: Init draws the directory      *)
(* (empty, or holding bob's record) and the deltas two runs produce for    *)
(* bob, PeopleApply merges the first and then the second.                  *)
(***************************************************************************)
PeopleDeltas ==
    {[display_name |-> d, discovered_roles |-> r, discovered_knowledge |-> k] :
        d \in {"", "Bobby"},
        r \in {<<>>, <<"lead">>, <<"lead", "dev">>}, k \in {<<>>, <<"db">>}}

PeopleDirectories ==
    {<<>>,
     [n \in {"bob"} |->
        [raw_name |-> "bob", display_name |-> "Robert", role_override |-> "manager",
         discovered_roles |-> <<"dev">>, discovered_knowledge |-> <<>>]]}

PeopleInit ==
    /\ \E ppl \in PeopleDirectories :
         \E d1 \in PeopleDeltas, d2 \in PeopleDeltas :
           fIn = [fn |-> "people", ppl |-> ppl, deltas |-> <<d1, d2>>]
    /\ fOut = <<>>
    /\ RunnerAtRest

PeopleApply ==
    /\ fIn.fn = "people"
    /\ Len(fOut) < 2
    /\ LET ppl == IF fOut = <<>> THEN fIn.ppl ELSE fOut[Len(fOut)]
           updates == [n \in {"bob"} |-> fIn.deltas[Len(fOut) + 1]]
       IN fOut' = Append(fOut, merge_people(ppl, updates))
    /\ UNCHANGED <<fIn, runnerVars>>

PeopleNext == PeopleApply

PeopleSpec == PeopleInit /\ [][PeopleNext]_vars

(***************************************************************************)
(* The incident title across two summarisation runs: Init draws the        *)
(* incident's title (empty or set) and the noise_reduction text of each    *)
(* run, TitleApply runs the stage and merges its incident updates as       *)
(* process_pipeline does (lines 583-596).                                  *)
(***************************************************************************)
TextLens == {0, 1, TitleLimit, TitleLimit + 1}

Texts == {[i \in 1..n |-> c] : n \in TextLens, c \in {"a", "b"}}

IncidentTitles == {<<>>, <<"T">>}

TitleInit ==
    /\ \E title \in IncidentTitles :
         \E t1 \in Texts, t2 \in Texts :
           fIn = [fn |-> "title", title |-> title, texts |-> <<t1, t2>>]
    /\ fOut = <<>>
    /\ RunnerAtRest

TitleApply ==
    /\ fIn.fn = "title"
    /\ Len(fOut) < 2
    /\ LET current == IF fOut = <<>> THEN fIn.title ELSE fOut[Len(fOut)]
           incident == [DefaultIncident EXCEPT !.title = current]
           updates == summarisation_incident_updates(incident, fIn.texts[Len(fOut) + 1])
       IN fOut' = Append(fOut, merge_incident_updates(incident, updates).title)
    /\ UNCHANGED <<fIn, runnerVars>>

TitleNext == TitleApply

TitleSpec == TitleInit /\ [][TitleNext]_vars

(***************************************************************************)
(* The application around the runner (app.py): calls of process_pipeline   *)
(* with the pages used between them.  The configuration page saves         *)
(* config.json, which every call reads afresh (pipeline.py 413), and       *)
(* deletes people, call documents and incidents; the people pages edit a   *)
(* person; the library pages edit the incident's title and master summary  *)
(* and call process_pipeline again for a call document (app.py 1490-1512,  *)
(* a call of Begin).  One run of a page acts on one button.                *)
(***************************************************************************)
RerunOrders == {<<>>, <<"parse">>, <<"parse", "enhance">>, <<"enhance", "parse">>}

\* config.json as the configuration page can leave it: an order and the
\* stages of the order that are switched off
RerunConfigs ==
    {c \in [pipeline_order : RerunOrders, disabled : SUBSET {"parse", "enhance"},
            registry : {RunRegistry(FALSE, {})}] :
        c.disabled \subseteq Range(c.pipeline_order)}

\* sort_items(order): the items in the order the user dragged them into
sort_items(order) == {q \in [1..Len(order) -> Range(order)] : Range(q) = Range(order)}

\* app.py 2389-2420 and 2599-2602, "Save Configuration": the page writes the
\* order as sorted and, for every stage of the order, the state of its
\* Enabled checkbox
EditConfig ==
    /\ AtRest
    /\ \E sorted_order \in sort_items(config.pipeline_order),
          enabled \in SUBSET Range(config.pipeline_order) :
          config' = [config EXCEPT
                        !.pipeline_order = sorted_order,
                        !.disabled = (@ \ Range(config.pipeline_order))
                                        \cup (Range(config.pipeline_order) \ enabled)]
    /\ UNCHANGED <<incident_file, people_file, run, runs, fIn, fOut>>

\* app.py 2423-2469, the people tab: "Delete ALL People" saves an empty
\* directory, "Delete Person" saves the directory without the selected person
MaintainPeople ==
    /\ AtRest
    /\ \E del_person \in {"(select)"} \cup DOMAIN people_file :
          people_file' = IF del_person = "(select)" THEN << >>
                         ELSE [n \in DOMAIN people_file \ {del_person} |-> people_file[n]]
    /\ UNCHANGED <<config, incident_file, run, runs, fIn, fOut>>

\* app.py 2471-2596, the incident tab: "Delete ALL Incidents & TRCs" and
\* "Delete Entire Incident" unlink the incident file, "Delete Selected TRC"
\* writes the incident back without the call documents of the selected id
MaintainIncidents ==
    /\ AtRest
    /\ \E sel_trc \in {"(none)"}
                       \cup {t.trc_id : t \in Range(read_json(incident_file, DefaultIncident).trcs)} :
          incident_file' =
             IF sel_trc = "(none)" THEN << >>
             ELSE LET inc_doc == incident_file[1]
                      Kept(t) == t.trc_id # sel_trc
                  IN <<[inc_doc EXCEPT !.trcs = SelectSeq(@, Kept)]>>
    /\ UNCHANGED <<config, people_file, run, runs, fIn, fOut>>

\* what the user types into the editors of a person and of an incident
PersonEdits ==
    {[display_name |-> "Bob B", role_override |-> ""],
     [display_name |-> "Robert", role_override |-> "manager"]}

IncidentEdits == {[title |-> "new title", master_summary |-> "new summary"]}

\* the entry the "Add Manual Role" and "Add Manual Knowledge" forms append
ManualEntry == "manual"

\* the length of a person's list up to which the forms are used
MaxEntries == 1

PersonLists == {"discovered_roles", "discovered_knowledge"}

\* app.py 2159-2166 (2224-2233, 2276-2283), "Save Changes" of a person: the
\* display name as typed, the role override as typed or None when empty
EditPerson ==
    /\ AtRest
    /\ \E raw_name \in DOMAIN people_file, e \in PersonEdits :
          people_file' = [people_file EXCEPT
                            ![raw_name].display_name = e.display_name,
                            ![raw_name].role_override =
                                IF e.role_override = "" THEN "None" ELSE e.role_override]
    /\ UNCHANGED <<config, incident_file, run, runs, fIn, fOut>>

\* app.py 2184-2200 (2301-2317), "Delete Role" and "Delete Knowledge":
\* entry i leaves the person's list
DeletePersonEntry ==
    /\ AtRest
    /\ \E raw_name \in DOMAIN people_file, list \in PersonLists :
          \E i \in 1..Len(people_file[raw_name][list]) :
             people_file' = [people_file EXCEPT ![raw_name][list] =
                                SubSeq(@, 1, i - 1) \o SubSeq(@, i + 1, Len(@))]
    /\ UNCHANGED <<config, incident_file, run, runs, fIn, fOut>>

\* app.py 2319-2353, "Add Role" and "Add Knowledge": the entry of the form is
\* appended to the person's list
AddPersonEntry ==
    /\ AtRest
    /\ \E raw_name \in DOMAIN people_file, list \in PersonLists :
          /\ Len(people_file[raw_name][list]) < MaxEntries
          /\ people_file' = [people_file EXCEPT ![raw_name][list] = Append(@, ManualEntry)]
    /\ UNCHANGED <<config, incident_file, run, runs, fIn, fOut>>

\* app.py 1535-1547 (1251-1258, 1676-1682), "Save Changes" of an incident:
\* the title and the master summary as typed
EditIncident ==
    /\ AtRest
    /\ incident_file # << >>
    /\ \E e \in IncidentEdits :
          incident_file' = <<[incident_file[1] EXCEPT !.title = e.title,
                                                     !.master_summary = e.master_summary]>>
    /\ UNCHANGED <<config, people_file, run, runs, fIn, fOut>>

RerunInit ==
    /\ config \in RerunConfigs
    /\ incident_file = <<>>
    /\ people_file \in PeopleDirectories
    /\ run = IdleRun
    /\ runs = 0
    /\ fIn = NoCall
    /\ fOut = <<>>

RerunNext ==
    \/ \E v \in VttContents, t \in StartTimes, s \in StartStages : Begin(v, t, s)
    \/ Configure
    \/ StageStep
    \/ Finish
    \/ \E v \in VttContents, t \in StartTimes : Upload(v, t)
    \/ UploadRecord
    \/ EditConfig
    \/ MaintainPeople
    \/ MaintainIncidents
    \/ EditPerson
    \/ DeletePersonEntry
    \/ AddPersonEntry
    \/ EditIncident

RerunSpec == RerunInit /\ [][RerunNext]_vars

(***************************************************************************)
(* Two calls of process_pipeline on the same incident, interleaved: in     *)
(* this specification run maps each call to its local state.  A call loads *)
(* the incident document (line 416), then finds or creates its call        *)
(* document (432-448), and every save writes the call's own in-memory      *)
(* document to the file (write_json, lines 447, 455, 594, 648) in steps:   *)
(* the open that empties the file and each write of a part of the text,    *)
(* with the other call free to run between them.                           *)
(***************************************************************************)
RaceCalls == {1, 2}

RaceOrders == {<<>>, <<"unknown">>, <<"parse">>}

\* the transcripts of the calls: a short one, and one whose document reaches
\* the file in parts
RaceContents == {"v1", LongVtt}

RaceConfigs ==
    {c \in RunConfigs : /\ c.pipeline_order \in RaceOrders
                        /\ c.disabled = {}
                        /\ c.registry = RunRegistry(FALSE, {})}

RaceInit ==
    /\ config \in RaceConfigs
    /\ incident_file = <<>>
    /\ people_file = <<>>
    /\ run = [p \in RaceCalls |-> IdleRun]
    /\ runs = 0
    /\ \E args \in [RaceCalls -> [vtt_content : RaceContents, start_time_iso : StartTimes]] :
         fIn = [fn |-> "race", args |-> args]
    /\ fOut = <<>>

\* the arguments of call p
RaceCall(p) ==
    [IdleRun EXCEPT !.vtt_content = fIn.args[p].vtt_content,
                    !.start_time_iso = fIn.args[p].start_time_iso]

\* lines 410-427, read_json lines 135-137: with no incident file the call
\* works on the default document; else the file is opened for reading and
\* json.load begins to read it, taking its size for the buffer.  (The file
\* once there stays, so the test of line 135 passes at any time from then on.)
RaceLoad(p) ==
    /\ run[p].pc = "idle"
    /\ run' = [run EXCEPT ![p] =
                 IF incident_file = <<>>
                 THEN [RaceCall(p) EXCEPT !.pc = "loaded",
                                          !.incident = read_json(incident_file, DefaultIncident)]
                 ELSE [RaceCall(p) EXCEPT
                          !.pc = "read",
                          !.bufsize = readall_bufsize(Len(file_text(incident_file)))]]
    /\ UNCHANGED <<config, incident_file, people_file, runs, fIn, fOut>>

\* read_json line 138: the next read of json.load.  What the file holds at
\* the offset is added to what was read; when nothing is there the file is
\* at its end and the text read is decoded: the call goes on with the
\* document (410-427), or JSONDecodeError leaves the call.
RaceRead(p) ==
    /\ run[p].pc = "read"
    /\ LET r == run[p]
           bytes_read == Len(r.read_text)
           bufsize == IF bytes_read >= r.bufsize THEN new_buffersize(bytes_read)
                      ELSE r.bufsize
           data == os_read(file_text(incident_file), bytes_read, bufsize - bytes_read)
           loaded == json_loads(r.read_text)
           closed == [r EXCEPT !.bufsize = 0, !.read_text = ""]
       IN run' = [run EXCEPT ![p] =
                    IF data # ""
                    THEN [r EXCEPT !.bufsize = bufsize, !.read_text = @ \o data]
                    ELSE IF loaded = <<>>
                    THEN EndRun([closed EXCEPT !.before = file_holding(r.read_text)],
                                Raised("JSONDecodeError"))
                    ELSE [closed EXCEPT !.pc = "loaded", !.before = loaded,
                                        !.incident = loaded[1]]]
    /\ UNCHANGED <<config, incident_file, people_file, runs, fIn, fOut>>

\* lines 432-446: find the call document in the loaded incident, or append a
\* new one and go on to write the loaded incident back (447)
RaceFindOrCreate(p) ==
    /\ run[p].pc = "loaded"
    /\ LET r == run[p]
           found == FindTrc(r.incident.trcs, trc_id(r.start_time_iso))
           created == [r.incident EXCEPT
                          !.trcs = Append(@, NewTrc(r.start_time_iso, r.vtt_content))]
       IN run' = [run EXCEPT ![p] =
                    IF found = 0
                    THEN [r EXCEPT !.pc = "open", !.resume = "configure",
                                   !.incident = created, !.trc_idx = Len(created.trcs)]
                    ELSE [r EXCEPT !.pc = "configure", !.trc_idx = found]]
    /\ UNCHANGED <<config, incident_file, people_file, runs, fIn, fOut>>

\* write_json, line 188: the file is opened for writing and is empty.  The
\* call keeps the text json.dump is to write and the lengths of the writes
\* that will bring it to the file (its document does not change meanwhile).
RaceOpen(p) ==
    /\ run[p].pc = "open"
    /\ incident_file' = open_w(incident_file)
    /\ run' = [run EXCEPT ![p].pc = "write", ![p].written = 0,
                          ![p].dumped = json_dumps(run[p].incident),
                          ![p].lens = os_writes(run[p].incident)]
    /\ UNCHANGED <<config, people_file, runs, fIn, fOut>>

\* write_json, line 189: the next write of json.dump or of the close reaches
\* the file; with the last one the save is over: after the save of line 447
\* the call goes on, after that of line 648 it returns the success result
\* (649-653)
RaceWrite(p) ==
    /\ run[p].pc = "write"
    /\ LET r == run[p]
           k == r.written + 1
           saved == [r EXCEPT !.resume = "", !.written = 0, !.dumped = "", !.lens = <<>>]
       IN /\ incident_file' = write_part(file_text(incident_file), r.incident,
                                         r.dumped, r.lens, k)
          /\ run' = [run EXCEPT ![p] =
                       IF k < Len(r.lens)
                       THEN [r EXCEPT !.written = k]
                       ELSE IF r.resume = "configure"
                       THEN [saved EXCEPT !.pc = "configure"]
                       ELSE EndRun(saved, Returned(TRUE, "None", r.stage_logs))]
    /\ UNCHANGED <<config, people_file, runs, fIn, fOut>>

\* lines 485-528, as Configure
RaceConfigure(p) ==
    /\ run[p].pc = "configure"
    /\ LET r == run[p]
           plan == PlanPipeline(config.registry, enabled_order(config))
           start == resolve_start_idx(plan.order, plan.dep_graph, r.start_stage)
       IN run' = [run EXCEPT ![p] =
                    IF plan.kind = "config_error"
                    THEN EndRun([r EXCEPT !.input_errors = plan.input_errors],
                                IF NameBound("StageLog")
                                THEN Returned(FALSE, "config", <<LogEntry("config", "Failed")>>)
                                ELSE Raised("NameError"))
                    ELSE [r EXCEPT !.pc = "loop", !.enabled_order = plan.order,
                                   !.dep_graph = plan.dep_graph,
                                   !.start_idx = start, !.idx = start]]
    /\ UNCHANGED <<config, incident_file, people_file, runs, fIn, fOut>>

\* lines 530-643, as StageStep
RaceStageStep(p) ==
    /\ run[p].pc = "loop"
    /\ run[p].idx <= Len(run[p].enabled_order)
    /\ LET step == run_stage(run[p], incident_file, people_file, config.registry)
       IN /\ run' = [run EXCEPT ![p] = step.run]
          /\ incident_file' = step.incident_file
          /\ people_file' = step.people_file
    /\ UNCHANGED <<config, runs, fIn, fOut>>

\* lines 645-646: the loop is over; mark the call processed and go on to
\* save (648)
RaceFinish(p) ==
    /\ run[p].pc = "loop"
    /\ run[p].idx > Len(run[p].enabled_order)
    /\ run' = [run EXCEPT ![p] =
                 [run[p] EXCEPT !.pc = "open", !.resume = "return",
                                !.incident.trcs[run[p].trc_idx].status = "processed"]]
    /\ UNCHANGED <<config, incident_file, people_file, runs, fIn, fOut>>

RaceNext ==
    \E p \in RaceCalls :
        \/ RaceLoad(p)
        \/ RaceRead(p)
        \/ RaceFindOrCreate(p)
        \/ RaceOpen(p)
        \/ RaceWrite(p)
        \/ RaceConfigure(p)
        \/ RaceStageStep(p)
        \/ RaceFinish(p)

RaceSpec == RaceInit /\ [][RaceNext]_vars

(***************************************************************************)
(* _build_dependency_graph as a function: Init draws a registry of the     *)
(* three stages (a stage may list itself, another stage or an unregistered *)
(* name in depends_on) and a set of enabled names, GraphApply builds the   *)
(* prerequisite map.                                                       *)
(***************************************************************************)
GraphInputs == {<<>>, <<RawKey, "parsed">>, <<"enhanced">>}

GraphDescriptors(n) ==
    {[name |-> n, inputs |-> i, outputs |-> o, depends_on |-> d] :
        i \in GraphInputs, o \in PlanOutputs[n],
        d \in {{}, {n}, {PlanNextOf[n]}, {"unknown"}}}

GraphRegistries ==
    {<<a, b, c>> : a \in GraphDescriptors("parse"), b \in GraphDescriptors("enhance"),
                   c \in GraphDescriptors("summarize")}

GraphInit ==
    /\ \E registry \in GraphRegistries :
         \E enabled \in SUBSET (Names \cup {"unknown"}) :
           fIn = [fn |-> "graph", registry |-> registry, enabled |-> enabled]
    /\ fOut = <<>>
    /\ RunnerAtRest

GraphApply ==
    /\ fIn.fn = "graph"
    /\ fOut = <<>>
    /\ fOut' = <<build_dependency_graph(fIn.registry, fIn.enabled)>>
    /\ UNCHANGED <<fIn, runnerVars>>

GraphNext == GraphApply

GraphSpec == GraphInit /\ [][GraphNext]_vars

(***************************************************************************)
(* The start index as a function (lines 485-528): Init draws an order over *)
(* the chain parse -> enhance -> summarize, the requested resume stage and *)
(* the output keys the call document already holds; ResumeApply plans the  *)
(* pipeline and resolves the start index.  The code never reads the call   *)
(* document for this.                                                      *)
(***************************************************************************)
ResumeStages == StartStages \cup {"parse"}

ResumeKeys == {"parsed", "enhanced", "summary"}

ResumeInit ==
    /\ \E order \in RunOrders :
         \E start_stage \in ResumeStages :
           \E present \in SUBSET ResumeKeys :
             fIn = [fn |-> "resume", registry |-> RunRegistry(FALSE, {}), order |-> order,
                    start_stage |-> start_stage, present |-> present \cup {RawKey}]
    /\ fOut = <<>>
    /\ RunnerAtRest

ResumeApply ==
    /\ fIn.fn = "resume"
    /\ fOut = <<>>
    /\ LET plan == PlanPipeline(fIn.registry, fIn.order)
       IN fOut' = <<[kind |-> plan.kind, order |-> plan.order, dep_graph |-> plan.dep_graph,
                     start_idx |-> IF plan.kind = "ok"
                                   THEN resolve_start_idx(plan.order, plan.dep_graph,
                                                          fIn.start_stage)
                                   ELSE 0]>>
    /\ UNCHANGED <<fIn, runnerVars>>

ResumeNext == ResumeApply

ResumeSpec == ResumeInit /\ [][ResumeNext]_vars

(***************************************************************************)
(* The built-in stages.  A descriptor holds what the runner reads with     *)
(* getattr(stage, attr, []): TranscriptionParsingStage declares requires,  *)
(* and neither inputs nor outputs nor depends_on.                          *)
(***************************************************************************)
BuiltinStage(name, inputs, outputs, depends_on) ==
    [name |-> name, inputs |-> inputs, outputs |-> outputs, depends_on |-> depends_on]

\* get_builtin_registry(), in the order of the dict
get_builtin_registry ==
    << BuiltinStage("transcription_parsing", <<>>, {}, {}),
       BuiltinStage("text_enhancement", <<"transcription_parsing">>, {"text_enhancement"}, {}),
       BuiltinStage("noise_reduction", <<"text_enhancement">>, {"noise_reduction"}, {}),
       BuiltinStage("participant_role_analysis", <<"noise_reduction">>,
                    {"participant_role_analysis"}, {}),
       BuiltinStage("participant_knowledge_analysis",
                    <<"noise_reduction", "participant_role_analysis">>,
                    {"participant_knowledge_analysis", "participant_analysis"},
                    {"participant_role_analysis"}),
       BuiltinStage("summarisation", <<"noise_reduction">>, {"summarisation"}, {}),
       BuiltinStage("keyword_extraction", <<"noise_reduction">>, {"keyword_extraction"}, {}),
       BuiltinStage("master_summary_synthesis", <<>>, {"master_summary_synthesis"},
                    {"summarisation"}) >>

\* the keys of trc_outputs in the StageOutput of each return statement of
\* the stage's run
BuiltinReturns(name) ==
    CASE name = "transcription_parsing" -> {{"transcription_parsing"}}
      [] name = "text_enhancement" -> {{"text_enhancement"}}
      [] name = "noise_reduction" -> {{"noise_reduction"}}
      [] name = "participant_role_analysis" -> {{"participant_role_analysis"}}
      [] name = "participant_knowledge_analysis" ->
            {{"participant_knowledge_analysis", "participant_analysis"}}
      [] name = "summarisation" -> {{"summarisation"}}
      [] name = "keyword_extraction" -> {{"keywords"}}
      [] name = "master_summary_synthesis" -> {{}}

\* read_config lines 146-155: pipeline_order of the default configuration
DefaultPipelineOrder ==
    <<"transcription_parsing", "text_enhancement", "noise_reduction",
      "participant_analysis", "summarisation", "keyword_extraction",
      "master_summary_synthesis">>

\* lines 452-455 and 575-577: the call's output map after the stage's
\* trc_outputs are saved (key sets)
save_trc_outputs(pipeline_outputs, trc_outputs) == pipeline_outputs \cup trc_outputs

(***************************************************************************)
(* The configuration phase on the built-in registry: Init draws the        *)
(* default configuration with any set of its stages switched off (none in  *)
(* the default itself), DefaultApply plans the pipeline.                   *)
(***************************************************************************)
DefaultInit ==
    /\ \E disabled \in SUBSET Range(DefaultPipelineOrder) :
         fIn = [fn |-> "default", registry |-> get_builtin_registry,
                conf |-> [pipeline_order |-> DefaultPipelineOrder, disabled |-> disabled]]
    /\ fOut = <<>>
    /\ RunnerAtRest

DefaultApply ==
    /\ fIn.fn = "default"
    /\ fOut = <<>>
    /\ fOut' = <<PlanPipeline(fIn.registry, enabled_order(fIn.conf))>>
    /\ UNCHANGED <<fIn, runnerVars>>

DefaultNext == DefaultApply

DefaultSpec == DefaultInit /\ [][DefaultNext]_vars

(***************************************************************************)
(* The result of a built-in stage saved into a call's output map: Init     *)
(* draws the stage, the return statement it leaves by and the keys the map *)
(* holds already, StageResultApply saves the stage's trc_outputs.          *)
(***************************************************************************)
StageResultKeys == {"noise_reduction", "summarisation", "keywords", "keyword_extraction"}

StageResultInit ==
    /\ \E i \in 1..Len(get_builtin_registry) :
         \E returned \in BuiltinReturns(get_builtin_registry[i].name) :
           \E present \in SUBSET StageResultKeys :
             fIn = [fn |-> "stage_result", stage |-> get_builtin_registry[i].name,
                    returned |-> returned, pipeline_outputs |-> present \cup {RawKey}]
    /\ fOut = <<>>
    /\ RunnerAtRest

StageResultApply ==
    /\ fIn.fn = "stage_result"
    /\ fOut = <<>>
    /\ fOut' = <<save_trc_outputs(fIn.pipeline_outputs, fIn.returned)>>
    /\ UNCHANGED <<fIn, runnerVars>>

StageResultNext == StageResultApply

StageResultSpec == StageResultInit /\ [][StageResultNext]_vars

(***************************************************************************)
(* TranscriptionParsingStage.run, lines 60-140: the loop over the parsed   *)
(* segments that gives each kept segment its display time.  Times are in   *)
(* milliseconds; a datetime is counted from midnight of the meeting's day. *)
(* A segment is its cue start, its speaker and whether its dialogue holds  *)
(* an alphanumeric character after the replacements (line 88).             *)
(***************************************************************************)
\* the value None of a timedelta or datetime
None == -1

SecondMs == 1000
MinuteMs == 60 * SecondMs
HourMs == 60 * MinuteMs

\* timedelta(hours=h, minutes=m, seconds=s, milliseconds=ms)
timedelta(h, m, s, ms) == h * HourMs + m * MinuteMs + s * SecondMs + ms

\* line 23
FOUR_HOURS_TD == timedelta(4, 0, 0, 0)

\* lines 181-188: a cue start "HH:MM:SS.mmm" as a timedelta, None when the
\* string does not split into the four numbers
parse_vtt_timestamp_to_timedelta(cue) ==
    IF cue.wellformed THEN timedelta(cue.h, cue.m, cue.s, cue.ms) ELSE None

\* display_dt.strftime("%H:%M")
strftime_HM(dt) == <<(dt \div HourMs) % 24, (dt \div MinuteMs) % 60>>

\* The local time zone of the process, as far as the timestamp of a naive
\* datetime depends on it (ctx.start_dt is datetime.fromisoformat of the
\* start time, naive when that names no offset): the offset from UTC at the
\* meeting start, and the wall times the clocks skip when daylight saving
\* time begins, gap_start up to gap_start + gap_len (gap_len 0: none).
Zone(utcoffset, gap_start, gap_len) ==
    [utcoffset |-> utcoffset, gap_start |-> gap_start, gap_len |-> gap_len]

UTC == Zone(0, 0, 0)

\* US Eastern time, the meeting on the eve of the second Sunday of March: the
\* clocks skip from 02:00 to 03:00 of the day after the meeting's
Eastern == Zone(timedelta(0 - 5, 0, 0, 0), timedelta(26, 0, 0, 0), HourMs)

\* display_dt.timestamp() of a naive datetime, counted from midnight UTC of
\* the meeting's day: the wall time is taken as local time, with the offset
\* from before the gap up to the end of the gap, so that a wall time the
\* clocks skip has the timestamp of the wall time gap_len later
timestamp(dt, zone) ==
    IF dt < zone.gap_start + zone.gap_len THEN dt - zone.utcoffset
    ELSE dt - zone.utcoffset - zone.gap_len

\* the loop's variables before the first segment (lines 60-66); entry_of and
\* rollover_at record, per segment, the entry it went to (0: dropped) and
\* the rollover offset after it
ParseStart ==
    [consolidated |-> <<>>, last_minute_key |-> None, last_speaker |-> "",
     last_vtt_offset_td |-> None, current_total_rollover_offset |-> 0,
     entry_of |-> <<>>, rollover_at |-> <<>>]

\* lines 68-140: one iteration of the loop
consolidate_segment(st, seg, meeting_start_dt, zone) ==
    IF ~seg.alnum
    THEN [st EXCEPT !.entry_of = Append(@, 0),
                    !.rollover_at = Append(@, st.current_total_rollover_offset)]
    ELSE LET parsed == parse_vtt_timestamp_to_timedelta(seg.cue)
             rolled == IF parsed # None /\ st.last_vtt_offset_td # None
                          /\ parsed < st.last_vtt_offset_td
                       THEN st.current_total_rollover_offset + FOUR_HOURS_TD
                       ELSE st.current_total_rollover_offset
             display_dt ==
                 IF parsed = None
                 THEN IF st.consolidated # <<>>
                         /\ st.consolidated[Len(st.consolidated)].display_dt # None
                      THEN st.consolidated[Len(st.consolidated)].display_dt
                      ELSE meeting_start_dt
                 ELSE IF meeting_start_dt # None
                      THEN meeting_start_dt + parsed + rolled
                      ELSE None
             current == IF parsed = None THEN 0 ELSE parsed
             minute_key == IF display_dt # None
                           THEN timestamp(display_dt, zone) \div MinuteMs
                           ELSE (current \div SecondMs) \div 60
             hhmm == IF display_dt # None THEN strftime_HM(display_dt)
                     ELSE <<(current \div SecondMs) \div 3600,
                            ((current \div SecondMs) % 3600) \div 60>>
             merge == /\ st.consolidated # <<>>
                      /\ st.last_speaker = seg.speaker
                      /\ st.last_minute_key = minute_key
             entries == IF merge THEN st.consolidated
                        ELSE Append(st.consolidated,
                                    [hhmm |-> hhmm, speaker |-> seg.speaker,
                                     display_dt |-> display_dt])
         IN [consolidated |-> entries,
             last_minute_key |-> IF merge THEN st.last_minute_key ELSE minute_key,
             last_speaker |-> IF merge THEN st.last_speaker ELSE seg.speaker,
             last_vtt_offset_td |-> IF parsed = None THEN st.last_vtt_offset_td ELSE parsed,
             current_total_rollover_offset |-> rolled,
             entry_of |-> Append(st.entry_of, Len(entries)),
             rollover_at |-> Append(st.rollover_at, rolled)]

RECURSIVE ConsolidateFrom(_, _, _, _, _)
ConsolidateFrom(st, segments, i, meeting_start_dt, zone) ==
    IF i > Len(segments) THEN st
    ELSE ConsolidateFrom(consolidate_segment(st, segments[i], meeting_start_dt, zone),
                         segments, i + 1, meeting_start_dt, zone)

\* the loop over raw_segments
consolidate(segments, meeting_start_dt, zone) ==
    ConsolidateFrom(ParseStart, segments, 1, meeting_start_dt, zone)

(***************************************************************************)
(* The loop as a function: Init draws the meeting start (None, 10:00:00 or *)
(* 22:30:30), the zone of the process and up to MaxSegs segments,          *)
(* ParseApply runs the loop.                                               *)
(***************************************************************************)
\* longest list of parsed segments
MaxSegs == 3

Cue(h, m, s, ms) == [wellformed |-> TRUE, h |-> h, m |-> m, s |-> s, ms |-> ms]

BadCue == [wellformed |-> FALSE, h |-> 0, m |-> 0, s |-> 0, ms |-> 0]

Cues ==
    {Cue(0, 59, 59, 0), Cue(0, 0, 1, 0), Cue(0, 0, 1, 500), Cue(1, 0, 1, 0),
     Cue(3, 30, 0, 0), BadCue}

Segments == [cue : Cues, speaker : {"Bob", "Amy"}, alnum : BOOLEAN]

MeetingStarts == {None, timedelta(10, 0, 0, 0), timedelta(22, 30, 30, 0)}

LocalZones == {UTC, Eastern}

ParseInit ==
    /\ \E segments \in SeqsUpTo(Segments, MaxSegs) :
         \E start_dt \in MeetingStarts, zone \in LocalZones :
           fIn = [fn |-> "parse", segments |-> segments, start_dt |-> start_dt,
                  zone |-> zone]
    /\ fOut = <<>>
    /\ RunnerAtRest

ParseApply ==
    /\ fIn.fn = "parse"
    /\ fOut = <<>>
    /\ fOut' = <<consolidate(fIn.segments, fIn.start_dt, fIn.zone)>>
    /\ UNCHANGED <<fIn, runnerVars>>

ParseNext == ParseApply

ParseSpec == ParseInit /\ [][ParseNext]_vars

(***************************************************************************)
(* Properties of the configuration phase (PlanSpec).                       *)
(***************************************************************************)
PlanEnabled == Range(fIn.order) \cap RegNames(fIn.registry)

\* the enabled stages that produce a key stage s consumes, raw_vtt aside
PlanDataPrereqs(s) ==
    {p \in PlanEnabled \ {s} :
        \E k \in Range(Stage(fIn.registry, s).inputs) \ {RawKey} :
            k \in Stage(fIn.registry, p).outputs}

\* the enabled stages that stage s lists in depends_on
PlanExplicitPrereqs(s) == Stage(fIn.registry, s).depends_on \cap PlanEnabled

\* every position of the order is preceded by a position of each prerequisite
PlacedAfterPrereqs(order) ==
    \A i \in 1..Len(order) :
        \A p \in PlanDataPrereqs(order[i]) \cup PlanExplicitPrereqs(order[i]) :
            \E j \in 1..(i-1) : order[j] = p

IsChainScenario ==
    /\ fIn.order = <<"summarize", "parse", "enhance">>
    /\ Stage(fIn.registry, "parse").outputs = {"parsed"}
    /\ Stage(fIn.registry, "parse").inputs = <<>>
    /\ Stage(fIn.registry, "enhance").inputs = <<"parsed">>
    /\ Stage(fIn.registry, "enhance").outputs = {"enhanced"}
    /\ Stage(fIn.registry, "summarize").inputs = <<"enhanced">>
    /\ \A n \in Names : Stage(fIn.registry, n).depends_on = {}

IsDistinct(seq) == \A i, j \in 1..Len(seq) : seq[i] = seq[j] => i = j

\* C1: whenever the configuration phase yields an order, every stage of it
\* comes after all of its data and explicit prerequisites, and every enabled
\* stage is placed; the chain parse -> enhance -> summarize listed as
\* [summarize, parse, enhance] is scheduled as [parse, enhance, summarize].
C1_TopologicalValidity ==
    (fIn.fn = "plan" /\ PlanDone /\ PlanOut.kind = "ok") =>
        /\ PlacedAfterPrereqs(PlanOut.order)
        /\ Range(PlanOut.order) = PlanEnabled
        /\ IsChainScenario => PlanOut.order = <<"parse", "enhance", "summarize">>

\* what holds of the code: the same for the configurations that list no stage twice
ValidWhenListedOnce ==
    (fIn.fn = "plan" /\ PlanDone /\ IsDistinct(fIn.order)) =>
        /\ PlanOut.kind = "ok" =>
             /\ PlacedAfterPrereqs(PlanOut.order)
             /\ Range(PlanOut.order) = PlanEnabled
             /\ IsDistinct(PlanOut.order)
        /\ IsChainScenario => PlanOut.order = <<"parse", "enhance", "summarize">>

\* C3: when validation passes and an enabled stage X lists in depends_on a
\* stage Y that is not enabled, the configuration phase fails with the
\* scheduler's error naming X and Y.
C3_DisabledPrerequisiteFails ==
    (fIn.fn = "plan" /\ PlanDone /\ PlanOut.input_errors = <<>>) =>
        \A X \in PlanEnabled :
            \A Y \in Stage(fIn.registry, X).depends_on \ PlanEnabled :
                /\ PlanOut.kind = "config_error"
                /\ \E i \in 1..Len(PlanOut.sched.missing) :
                       /\ PlanOut.sched.missing[i].stage = X
                       /\ Y \in PlanOut.sched.missing[i].missing

\* an enabled stage consuming a key (not raw_vtt) that no enabled stage produces
MissingProducer(s, k) ==
    /\ s \in PlanEnabled
    /\ k \in Range(Stage(fIn.registry, s).inputs)
    /\ k # RawKey
    /\ \A p \in PlanEnabled : k \notin Stage(fIn.registry, p).outputs

\* C4: every enabled stage's input key that is not raw_vtt and that no enabled
\* stage declares as output is reported by the validator with the stage and
\* the key, and the configuration phase ends in a configuration error that
\* leaves no stage to run.
C4_MissingProducerReported ==
    (fIn.fn = "plan" /\ PlanDone) =>
        \A s \in Names : \A k \in {"parsed", "enhanced"} :
            MissingProducer(s, k) =>
                /\ \E i \in 1..Len(PlanOut.input_errors) : PlanOut.input_errors[i] = <<s, k>>
                /\ PlanOut.kind = "config_error"
                /\ PlanOut.order = <<>>

C4_Witness ==
    /\ fIn.fn = "plan" /\ PlanDone
    /\ MissingProducer("summarize", "enhanced")
    /\ "enhance" \in PlanEnabled
    /\ PlanOut.input_errors = <<<<"summarize", "enhanced">>>>

(***************************************************************************)
(* Properties of the scheduler alone (SchedSpec).                          *)
(***************************************************************************)
SchedNodes == Filter(fIn.order, DOMAIN fIn.graph)

RECURSIVE ReachableFrom(_, _)
\* the stages reached from the set S along prerequisite edges, S included
ReachableFrom(graph, S) ==
    LET next == S \cup UNION {graph[n] : n \in S}
    IN IF next = S THEN S ELSE ReachableFrom(graph, next)

\* some scheduled stage is, directly or transitively, its own prerequisite
HasCycle(graph) ==
    \E s \in DOMAIN graph : \E p \in graph[s] : s \in ReachableFrom(graph, {p})

\* C5: a prerequisite map with a cycle among the scheduled stages makes the
\* scheduler fail with the dependency-cycle error; no order is returned.
C5_CycleDetected ==
    (fIn.fn = "toposort" /\ SchedDone /\ HasCycle(fIn.graph)) =>
        /\ SchedOut.kind = "cycle"
        /\ SchedOut.order = <<>>

NoEdges(graph) == \A s \in DOMAIN graph : graph[s] = {}

\* C8 as claimed: with no edges at all the returned order equals the
\* preference list, for every preference list.
C8_EqualsPreferenceList ==
    (fIn.fn = "toposort" /\ SchedDone /\ NoEdges(fIn.graph)) =>
        /\ SchedOut.kind = "ok"
        /\ SchedOut.order = fIn.order

Count(seq, x) == Cardinality({i \in 1..Len(seq) : seq[i] = x})

\* C8 amended: with no edges at all the scheduler returns the preference list
\* restricted to the stages of the map, each stage as often as it is listed,
\* in the order of the stages' first positions in the list; that is the
\* restricted list itself whenever it names no stage twice.
C8_PreferenceStability ==
    (fIn.fn = "toposort" /\ SchedDone /\ NoEdges(fIn.graph)) =>
        /\ SchedOut.kind = "ok"
        /\ Len(SchedOut.order) = Len(SchedNodes)
        /\ \A n \in Names : Count(SchedOut.order, n) = Count(SchedNodes, n)
        /\ \A i, j \in 1..Len(SchedOut.order) :
             i < j => Index(SchedNodes, SchedOut.order[i]) <= Index(SchedNodes, SchedOut.order[j])
        /\ IsDistinct(SchedNodes) => SchedOut.order = SchedNodes

C8_Witness ==
    /\ fIn.fn = "toposort" /\ SchedDone
    /\ NoEdges(fIn.graph)
    /\ fIn.order = <<"summarize", "parse", "enhance">>
    /\ DOMAIN fIn.graph = Names
    /\ SchedOut.order = <<"summarize", "parse", "enhance">>

\* the stages whose prerequisites are all among the emitted ones
ReadyAfter(graph, emitted) == {s \in DOMAIN graph : graph[s] \subseteq emitted}

\* C9: at every step the emitted stage has all its prerequisites emitted
\* before it and has the smallest preference position among the stages that
\* are ready and not yet emitted.
C9_GreedyByPreference ==
    (fIn.fn = "toposort" /\ SchedDone /\ SchedOut.kind = "ok") =>
        \A i \in 1..Len(SchedOut.order) :
            LET emitted == {SchedOut.order[j] : j \in 1..(i-1)}
                ready == ReadyAfter(fIn.graph, emitted)
            IN /\ SchedOut.order[i] \in ready
               /\ \A s \in ready \ emitted :
                      Index(fIn.order, SchedOut.order[i]) <= Index(fIn.order, s)

\* what holds of the code: the same for the preference lists that name no
\* scheduled stage twice, where an order is returned exactly when no cycle exists
GreedyWhenListedOnce ==
    (fIn.fn = "toposort" /\ SchedDone /\ IsDistinct(SchedNodes)) =>
        /\ SchedOut.kind = "ok" <=> ~HasCycle(fIn.graph)
        /\ SchedOut.kind = "ok" =>
             \A i \in 1..Len(SchedOut.order) :
                LET emitted == {SchedOut.order[j] : j \in 1..(i-1)}
                    ready == ReadyAfter(fIn.graph, emitted)
                IN /\ SchedOut.order[i] \in ready \ emitted
                   /\ \A s \in ready \ emitted :
                          Index(fIn.order, SchedOut.order[i]) <= Index(fIn.order, s)

(***************************************************************************)
(* Properties of the keyword merge (MergeSpec).                            *)
(***************************************************************************)
\* C10: merging the same keyword list into an incident a second time leaves
\* the incident's keywords as the first merge left them, so of the same size:
\* the merge is the union of the two lists as sets, without repeats.
C10_KeywordMergeIdempotent ==
    (fIn.fn = "merge" /\ Len(fOut) = 2) =>
        /\ Len(fOut[2]) = Len(fOut[1])
        /\ Range(fOut[1]) = Range(fIn.keywords) \cup Range(fIn.update)
        /\ Len(fOut[1]) = Cardinality(Range(fOut[1]))

C10_Witness ==
    /\ fIn.fn = "merge"
    /\ fIn.keywords = <<1>>
    /\ fIn.update = <<2, 1>>
    /\ fOut = << <<1, 2>>, <<1, 2>> >>

(***************************************************************************)
(* Properties of the runner (Spec).                                        *)
(***************************************************************************)
RunDone == run.pc = "done"

RunPlan == PlanPipeline(config.registry, enabled_order(config))

\* the output keys the call document held when the call started
KeysAtStart ==
    LET before == read_json(run.before, DefaultIncident)
        found == FindTrc(before.trcs, trc_id(run.start_time_iso))
    IN IF found = 0 THEN {RawKey} ELSE DOMAIN before.trcs[found].pipeline_outputs

\* the call document of the running call, as persisted
PersistedTrc ==
    LET doc == read_json(incident_file, DefaultIncident)
    IN doc.trcs[FindTrc(doc.trcs, trc_id(run.start_time_iso))]

\* C2: a call that ends with a configuration error returns the failed
\* "config" result and leaves the incident file as it was when the call
\* started; in particular no call document is created.
C2_ConfigErrorTouchesNothing ==
    (RunDone /\ RunPlan.kind = "config_error") =>
        /\ run.result.kind = "returned"
        /\ ~run.result.success
        /\ run.result.failed_stage = "config"
        /\ incident_file = run.before

StageRaises(n) == Stage(config.registry, n).run.raises

StageProduces(n) == DOMAIN Stage(config.registry, n).run.trc_outputs

\* position i of the final order holds the first stage of the run whose run
\* raises: the stages before it from the start index return, and each stage
\* up to it finds its inputs
FirstRaisingAt(i) ==
    LET order == run.enabled_order
    IN /\ i \in run.start_idx..Len(order)
       /\ StageRaises(order[i])
       /\ \A j \in run.start_idx..(i-1) : ~StageRaises(order[j])
       /\ \A j \in run.start_idx..i :
            Range(Stage(config.registry, order[j]).inputs) \subseteq
                KeysAtStart \cup UNION {StageProduces(order[k]) : k \in run.start_idx..(j-1)}

\* C6: when a stage's run raises, the call returns success=false with that
\* stage as failed_stage instead of raising; the stages up to it and no later
\* one were invoked, the outputs of the earlier ones are persisted, and the
\* logs are one Completed entry per earlier stage, then one Failed entry.
C6_StageFailureIsReturned ==
    RunDone =>
        \A i \in 1..Len(run.enabled_order) :
            FirstRaisingAt(i) =>
                /\ run.result.kind = "returned"
                /\ ~run.result.success
                /\ run.result.failed_stage = run.enabled_order[i]
                /\ run.invoked = SubSeq(run.enabled_order, run.start_idx, i)
                /\ run.result.stage_logs =
                     [j \in 1..(i - run.start_idx + 1) |->
                        LogEntry(run.enabled_order[run.start_idx + j - 1],
                                 IF j = i - run.start_idx + 1 THEN "Failed" ELSE "Completed")]
                /\ \A j \in run.start_idx..(i-1) :
                     StageProduces(run.enabled_order[j]) \subseteq DOMAIN PersistedTrc.pipeline_outputs
                /\ DOMAIN PersistedTrc.pipeline_outputs \subseteq
                     KeysAtStart \cup UNION {StageProduces(run.enabled_order[j]) :
                                                j \in run.start_idx..(i-1)}

\* C7: a call resumed at stage X of the final order, X having a transitive
\* prerequisite Y that never ran for this call, invokes Y, and invokes it
\* before X (the stages ahead of Y returning).
C7_ResumeRunsPrerequisiteFirst ==
    (RunDone /\ run.start_stage \in Range(run.enabled_order)) =>
        \A Y \in ReachableFrom(run.dep_graph, run.dep_graph[run.start_stage]) :
            (/\ StageProduces(Y) \cap KeysAtStart = {}
             /\ \A j \in run.start_idx..Index(run.enabled_order, Y) :
                    ~StageRaises(run.enabled_order[j])
             /\ \A j \in run.start_idx..Index(run.enabled_order, Y) :
                    Range(Stage(config.registry, run.enabled_order[j]).inputs) \subseteq
                        KeysAtStart \cup UNION {StageProduces(run.enabled_order[k]) :
                                                   k \in run.start_idx..(j-1)})
            => /\ Y \in Range(run.invoked)
               /\ \A j \in 1..Len(run.invoked) :
                    run.invoked[j] = run.start_stage =>
                        \E k \in 1..(j-1) : run.invoked[k] = Y

\* what holds of the resume logic: the start index is never after a
\* prerequisite of the requested stage, nor after the stage itself
StartIndexCoversPrerequisites ==
    (run.pc = "loop" /\ run.start_stage \in Range(run.enabled_order)) =>
        /\ run.start_idx <= Index(run.enabled_order, run.start_stage)
        /\ \A Y \in ReachableFrom(run.dep_graph, run.dep_graph[run.start_stage]) :
             run.start_idx <= Index(run.enabled_order, Y)

(***************************************************************************)
(* Properties of the people-directory merge (PeopleSpec).                  *)
(***************************************************************************)
\* the entries bob had in the directory before the first run
PeopleBefore(field) ==
    IF "bob" \in DOMAIN fIn.ppl THEN fIn.ppl["bob"][field] ELSE <<>>

\* C11: after two runs that each produce entries for the same person, the
\* person's discovered_roles and discovered_knowledge are what the person had,
\* then the first run's entries, then the second run's: nothing is
\* overwritten, removed or deduplicated.
C11_PeopleEntriesConcatenate ==
    (fIn.fn = "people" /\ Len(fOut) = 2) =>
        \A field \in {"discovered_roles", "discovered_knowledge"} :
            fOut[2]["bob"][field] =
                PeopleBefore(field) \o fIn.deltas[1][field] \o fIn.deltas[2][field]

C11_Witness ==
    /\ fIn.fn = "people" /\ Len(fOut) = 2
    /\ fIn.ppl = <<>>
    /\ fIn.deltas[1].discovered_roles = <<"lead">>
    /\ fIn.deltas[2].discovered_roles = <<"lead", "dev">>
    /\ fOut[2]["bob"].discovered_roles = <<"lead", "lead", "dev">>

(***************************************************************************)
(* The run the runner's contract describes, against which the calls of     *)
(* the runner are compared: from position i of the final order with the    *)
(* output keys present, each stage finds its inputs or fails, is invoked,  *)
(* raises or completes and adds its outputs.                               *)
(***************************************************************************)
RECURSIVE ContractRunFrom(_, _, _)
ContractRunFrom(order, i, keys) ==
    IF i > Len(order)
    THEN [invoked |-> <<>>, logs |-> <<>>, failed |-> "None", missing |-> FALSE]
    ELSE LET s == order[i]
             st == Stage(config.registry, s)
         IN IF ~(Range(st.inputs) \subseteq keys)
            THEN [invoked |-> <<>>, logs |-> <<LogEntry(s, "Failed")>>,
                  failed |-> s, missing |-> TRUE]
            ELSE IF st.run.raises
            THEN [invoked |-> <<s>>, logs |-> <<LogEntry(s, "Failed")>>,
                  failed |-> s, missing |-> FALSE]
            ELSE LET rest == ContractRunFrom(order, i + 1,
                                             keys \cup DOMAIN st.run.trc_outputs)
                 IN [invoked |-> <<s>> \o rest.invoked,
                     logs |-> <<LogEntry(s, "Completed")>> \o rest.logs,
                     failed |-> rest.failed, missing |-> rest.missing]

\* the call passed the configuration phase and has ended
RunEndedAfterPlan == RunDone /\ RunPlan.kind = "ok"

ContractRun == ContractRunFrom(run.enabled_order, run.start_idx, KeysAtStart)

\* the enabled names of the configured order that the registry does not hold
UnresolvedNames == Range(enabled_order(config)) \ RegNames(config.registry)

\* C12: an enabled name of the configured order that the registry cannot
\* resolve does not fail the run: a run that returns success carries a stage
\* log entry with status "Skipped" for every such name.
C12_UnknownStageIsSkipped ==
    (RunDone /\ run.result.kind = "returned" /\ run.result.success) =>
        \A n \in UnresolvedNames :
            \E i \in 1..Len(run.result.stage_logs) :
                run.result.stage_logs[i] = LogEntry(n, "Skipped")

\* C13: when a stage is reached whose declared inputs are not all in the
\* call's output map, the call returns a failure naming that stage, its last
\* log entry being the Failed entry of the stage; the stage's run is not
\* invoked and no later stage runs.
C13_MissingInputFailsStage ==
    (RunEndedAfterPlan /\ ContractRun.missing) =>
        /\ run.result.kind = "returned"
        /\ ~run.result.success
        /\ run.result.failed_stage = ContractRun.failed
        /\ run.result.stage_logs = ContractRun.logs
        /\ run.invoked = ContractRun.invoked

\* C14: when every stage from the start index to the end of the order
\* succeeds, the call's status is persisted as "processed" and the call
\* returns success=true, failed_stage null and one Completed entry per stage
\* of the run, in execution order.
C14_SuccessMarksProcessed ==
    (RunEndedAfterPlan /\ ContractRun.failed = "None") =>
        /\ run.result = Returned(TRUE, "None", ContractRun.logs)
        /\ Len(run.result.stage_logs) = Len(run.enabled_order) - run.start_idx + 1
        /\ PersistedTrc.status = "processed"

\* C16: a requested resume stage that is not in the final order makes the
\* run start at the first stage and run the whole order; the call does not
\* fail for it.
C16_UnknownResumeStartsAtZero ==
    (RunEndedAfterPlan /\ run.start_stage # ""
        /\ run.start_stage \notin Range(run.enabled_order)) =>
        /\ run.start_idx = 1
        /\ run.result.kind = "returned"
        /\ run.invoked = ContractRunFrom(run.enabled_order, 1, KeysAtStart).invoked

\* what holds of the resume logic: such a stage resolves to the first position
UnknownResumeResolvesToFirst ==
    (run.pc \in {"loop", "done"} /\ RunPlan.kind = "ok" /\ run.start_stage # ""
        /\ run.start_stage \notin Range(run.enabled_order)) => run.start_idx = 1

\* C17: within one run the stages invoked are exactly the stages of the
\* final order from the start index on, in that order, each once, up to and
\* including the first stage that fails.
C17_InvocationsAreOrderSuffix ==
    RunEndedAfterPlan => run.invoked = ContractRun.invoked

(***************************************************************************)
(* Output keys declared by more than one stage (PlanSpec).                 *)
(***************************************************************************)
\* two different enabled stages both declare the output key k
DuplicateOutput(p, q, k) ==
    /\ p \in PlanEnabled /\ q \in PlanEnabled /\ p # q
    /\ k \in Stage(fIn.registry, p).outputs
    /\ k \in Stage(fIn.registry, q).outputs

\* C15: a configuration in which two enabled stages declare the same output
\* key is rejected as a configuration error.
C15_DuplicateOutputRejected ==
    (fIn.fn = "plan" /\ PlanDone) =>
        \A p, q \in Names : \A k \in {"parsed", "enhanced"} :
            DuplicateOutput(p, q, k) => PlanOut.kind = "config_error"

(***************************************************************************)
(* The incident title (TitleSpec).                                         *)
(***************************************************************************)
\* the incident's title before the i-th run
TitleBefore(i) == IF i = 1 THEN fIn.title ELSE fOut[i - 1]

\* C18 as claimed: a title, once non-empty, is changed by no later run, and
\* with an empty title a summarisation run sets it.
C18_TitleSetOnce ==
    fIn.fn = "title" =>
        \A i \in 1..Len(fOut) :
            /\ TitleBefore(i) # <<>> => fOut[i] = TitleBefore(i)
            /\ TitleBefore(i) = <<>> => fOut[i] # <<>>

\* C18 amended: a title, once non-empty, is changed by no later run; with an
\* empty title a summarisation run sets it when the call's noise_reduction
\* text is non-empty, and leaves it empty when the text is empty.
C18_TitleSetOnceFromText ==
    fIn.fn = "title" =>
        \A i \in 1..Len(fOut) :
            /\ TitleBefore(i) # <<>> => fOut[i] = TitleBefore(i)
            /\ TitleBefore(i) = <<>> => (fOut[i] # <<>> <=> fIn.texts[i] # <<>>)

C18_Witness ==
    /\ fIn.fn = "title"
    /\ fIn.title = <<>>
    /\ Len(fIn.texts[1]) > TitleLimit
    /\ fIn.texts[2] # <<>> /\ fIn.texts[2][1] # fIn.texts[1][1]
    /\ Len(fOut) = 2
    /\ Len(fOut[1]) = TitleLimit + 3
    /\ fOut[2] = fOut[1]

(***************************************************************************)
(* The call documents of the incident file across calls (Spec).            *)
(***************************************************************************)
\* the call documents the incident file holds
FileTrcs(file) == read_json(file, DefaultIncident).trcs

TrcIds(trcs) == [i \in 1..Len(trcs) |-> trcs[i].trc_id]

\* this step is the start of a call of process_pipeline
CallBegins == run.pc \in {"idle", "done", "upload"} /\ run'.pc = "configure"

CallIdsStep ==
    LET before == FileTrcs(incident_file)
        after == FileTrcs(incident_file')
    IN /\ IsDistinct(TrcIds(after))
       /\ IF CallBegins
          THEN IF \E i \in 1..Len(before) : before[i].start_time = run'.start_time_iso
               THEN /\ TrcIds(after) = TrcIds(before)
                    /\ after[run'.trc_idx].start_time = run'.start_time_iso
               ELSE /\ Len(after) = Len(before) + 1
                    /\ SubSeq(after, 1, Len(before)) = before
                    /\ after[Len(after)].start_time = run'.start_time_iso
                    /\ after[Len(after)].trc_id = trc_id(run'.start_time_iso)
                    /\ run'.trc_idx = Len(after)
          ELSE TrcIds(after) = TrcIds(before)

\* The part of C19 about the call ids: over any sequence of calls the
\* incident file never holds two call documents with the same call id: a
\* call whose start time is that of an existing call document works on that
\* document and appends none, a call with a new start time appends exactly
\* one, and no other step changes the list of call ids.
CallIdsStayUnique == [][CallIdsStep]_vars

\* this step is the upload handler's write before its call of the runner
\* (app.py 385-395)
UploadWrites == run'.pc = "upload"

RawVttStep ==
    LET before == FileTrcs(incident_file)
        after == FileTrcs(incident_file')
    IN /\ \A i \in 1..Len(before) :
            /\ i <= Len(after)
            /\ after[i].trc_id = before[i].trc_id
            /\ after[i].pipeline_outputs[RawKey] # before[i].pipeline_outputs[RawKey] =>
                  /\ UploadWrites
                  /\ before[i].start_time = run'.start_time_iso
                  /\ after[i].pipeline_outputs[RawKey] = run'.vtt_content
       /\ \A i \in (Len(before) + 1)..Len(after) :
            /\ CallBegins
            /\ after[i].pipeline_outputs[RawKey] = run'.vtt_content

\* C20: the raw content passed to a call is stored only in a call document
\* the call creates: every call document already in the incident file keeps
\* its raw_vtt output through every step of process_pipeline, whatever
\* content the call passes; the raw_vtt of an existing call document changes
\* only in the upload handler's own write, before it calls the runner.
C20_RawVttKeptOnReuse == [][RawVttStep]_vars

C20_Witness ==
    /\ runs = 2
    /\ run.pc = "configure"
    /\ Len(FileTrcs(incident_file)) = 1
    /\ FileTrcs(incident_file)[1].trc_id = trc_id(run.start_time_iso)
    /\ run.vtt_content = "v2"
    /\ FileTrcs(incident_file)[1].pipeline_outputs[RawKey] = "v1"

(***************************************************************************)
(* Interleaved calls on one incident (RaceSpec).                           *)
(***************************************************************************)
\* call p completes a save in this step
SaveEnds(p) == run[p].pc = "write" /\ run'[p].pc # "write"

RaceSaveStep ==
    /\ \A p \in RaceCalls :
          run[p].pc \notin {"idle", "read"} => run'[p].before = run[p].before
    /\ \A p \in RaceCalls :
          SaveEnds(p) =>
              /\ incident_file' = <<run[p].incident>>
              /\ Range(TrcIds(run[p].incident.trcs))
                    \subseteq Range(TrcIds(FileTrcs(run[p].before)))
                              \cup {trc_id(run[p].start_time_iso)}

\* C21: no lock: each of two interleaved calls loads the incident document
\* once, and every save replaces the file with the saving call's own
\* document, which holds the call documents it loaded and its own and none
\* the other call has saved since; so the last writer wins and a call
\* document the other call saved can be missing from the final file.
C21_LastWriterWins == [][RaceSaveStep]_vars

(***************************************************************************)
(* What is persisted when a call has ended (Spec).                         *)
(***************************************************************************)
\* the stages the run completes: those with a Completed entry
CompletedStages ==
    {ContractRun.logs[i].stage : i \in {j \in 1..Len(ContractRun.logs) :
                                            ContractRun.logs[j].status = "Completed"}}

\* C22: everything a successful stage returns is persisted before the next
\* stage is invoked: when the call has ended, the incident file holds every
\* call output, call artifact and incident artifact of every stage the run
\* completes.
C22_CompletedStagesArePersisted ==
    RunEndedAfterPlan =>
        \A s \in CompletedStages :
            LET out == Stage(config.registry, s).run
            IN /\ \A k \in DOMAIN out.trc_outputs :
                    /\ k \in DOMAIN PersistedTrc.pipeline_outputs
                    /\ PersistedTrc.pipeline_outputs[k] = out.trc_outputs[k]
               /\ out.trc_artifacts \cup out.trc_artifacts_json
                     \subseteq DOMAIN PersistedTrc.pipeline_artifacts
               /\ {incident_artifact_key(k) : k \in out.incident_artifacts}
                     \subseteq DOMAIN read_json(incident_file, DefaultIncident).pipeline_artifacts

\* the call works on a call document the incident held when the call began
CallReuses == FindTrc(FileTrcs(run.before), trc_id(run.start_time_iso)) # 0

\* C19: the incident never holds two call documents with the same call id: a
\* call whose start time is that of an existing call document reuses that
\* document, appending none, and overwrites its outputs, so that when the
\* call has ended the document holds what the stages the run completes
\* return; a call with a new start time appends exactly one.
C19_ReuseOverwritesOutputs ==
    /\ IsDistinct(TrcIds(FileTrcs(incident_file)))
    /\ (RunEndedAfterPlan /\ CallReuses) =>
          /\ TrcIds(FileTrcs(incident_file)) = TrcIds(FileTrcs(run.before))
          /\ \A s \in CompletedStages :
                LET out == Stage(config.registry, s).run
                IN \A k \in DOMAIN out.trc_outputs :
                      /\ k \in DOMAIN PersistedTrc.pipeline_outputs
                      /\ PersistedTrc.pipeline_outputs[k] = out.trc_outputs[k]
    /\ (RunEndedAfterPlan /\ ~CallReuses) =>
          /\ Len(FileTrcs(incident_file)) = Len(FileTrcs(run.before)) + 1
          /\ SubSeq(TrcIds(FileTrcs(incident_file)), 1, Len(FileTrcs(run.before)))
                = TrcIds(FileTrcs(run.before))

(***************************************************************************)
(* The prerequisite map (GraphSpec).                                       *)
(***************************************************************************)
GraphDone == fIn.fn = "graph" /\ fOut # <<>>

\* the enabled stages other than s declaring as output a key s declares as
\* input, raw_vtt aside
GraphProducersFor(s) ==
    {q \in Names \cap fIn.enabled :
        /\ q # s
        /\ \E i \in 1..Len(Stage(fIn.registry, s).inputs) :
              /\ Stage(fIn.registry, s).inputs[i] # RawKey
              /\ Stage(fIn.registry, s).inputs[i] \in Stage(fIn.registry, q).outputs}

\* C23 as claimed: the map has a key for each enabled registered stage S, and
\* S's prerequisites are exactly the enabled entries of S.depends_on and the
\* enabled producers of S's input keys other than S; S is never its own
\* prerequisite.
C23_GraphIsExactlyPrerequisites ==
    GraphDone =>
        /\ DOMAIN fOut[1] = Names \cap fIn.enabled
        /\ \A s \in Names \cap fIn.enabled :
              /\ fOut[1][s] = (Stage(fIn.registry, s).depends_on \cap fIn.enabled)
                                 \cup GraphProducersFor(s)
              /\ s \notin fOut[1][s]

\* C23 amended: S's prerequisites are exactly the entries of S.depends_on
\* that are enabled and registered, S itself included when it lists itself,
\* and the enabled producers of S's input keys other than S; S is its own
\* prerequisite exactly when S.depends_on names S; a key without an enabled
\* producer adds nothing.
C23_GraphOfEnabledRegistered ==
    GraphDone =>
        /\ DOMAIN fOut[1] = Names \cap fIn.enabled
        /\ \A s \in Names \cap fIn.enabled :
              /\ fOut[1][s] = (Stage(fIn.registry, s).depends_on \cap fIn.enabled \cap Names)
                                 \cup GraphProducersFor(s)
              /\ s \in fOut[1][s] <=> s \in Stage(fIn.registry, s).depends_on

C23_Witness ==
    /\ GraphDone
    /\ fIn.enabled = Names \cup {"unknown"}
    /\ Stage(fIn.registry, "enhance").depends_on = {"enhance"}
    /\ Stage(fIn.registry, "parse").depends_on = {"unknown"}
    /\ Stage(fIn.registry, "summarize").inputs = <<"enhanced">>
    /\ Stage(fIn.registry, "summarize").outputs = {}
    /\ fOut[1]["enhance"] = {"enhance", "parse"}
    /\ fOut[1]["parse"] = {}
    /\ fOut[1]["summarize"] = {"enhance"}

(***************************************************************************)
(* The start index of a resumed run (ResumeSpec).                          *)
(***************************************************************************)
\* the start index was resolved for a resume stage of the final order
ResumeResolved ==
    /\ fIn.fn = "resume" /\ fOut # <<>>
    /\ fOut[1].kind = "ok"
    /\ fIn.start_stage \in Range(fOut[1].order)

\* a prerequisite is unmet when an output it declares is not in the call's
\* output map
Unmet(Y) == ~(Stage(fIn.registry, Y).outputs \subseteq fIn.present)

\* the positions of the final order holding the resume stage or one of its
\* unmet transitive prerequisites
ResumePositions ==
    {i \in 1..Len(fOut[1].order) :
        \/ fOut[1].order[i] = fIn.start_stage
        \/ /\ fOut[1].order[i] \in ReachableFrom(fOut[1].dep_graph,
                                                 fOut[1].dep_graph[fIn.start_stage])
           /\ Unmet(fOut[1].order[i])}

\* C24: with a resume stage X of the final order, the run starts at the
\* earliest position holding X or an unmet transitive prerequisite of X, and
\* never after X's own position.
C24_StartsAtEarliestUnmet ==
    ResumeResolved =>
        /\ fOut[1].start_idx \in ResumePositions
        /\ \A i \in ResumePositions : fOut[1].start_idx <= i
        /\ fOut[1].start_idx <= Index(fOut[1].order, fIn.start_stage)

\* what holds of the resume logic: the run starts at the earliest position
\* holding X or any transitive prerequisite of X, met or not
StartsAtEarliestPrerequisite ==
    ResumeResolved =>
        LET pre == ReachableFrom(fOut[1].dep_graph, fOut[1].dep_graph[fIn.start_stage])
            pos == {i \in 1..Len(fOut[1].order) :
                        fOut[1].order[i] \in pre \cup {fIn.start_stage}}
        IN /\ fOut[1].start_idx \in pos
           /\ \A i \in pos : fOut[1].start_idx <= i

(***************************************************************************)
(* The built-in stages' declared outputs (StageResultSpec).                *)
(***************************************************************************)
\* C25: after a built-in stage has returned and its result is saved, every
\* key of the stage's declared outputs is in the call's output map.
C25_DeclaredOutputsAreWritten ==
    (fIn.fn = "stage_result" /\ fOut # <<>>) =>
        Stage(get_builtin_registry, fIn.stage).outputs \subseteq fOut[1]

(***************************************************************************)
(* The default configuration on the built-in registry (DefaultSpec).       *)
(***************************************************************************)
\* position i of the order holds stage a, a later position holds stage b
Precedes(order, a, b) ==
    \E i, j \in 1..Len(order) : i < j /\ order[i] = a /\ order[j] = b

\* C28: with the built-in registry and the default configuration, no stage
\* switched off, configuration checking succeeds: the validator reports no
\* error and the final order runs transcription_parsing, text_enhancement,
\* noise_reduction in that order, ahead of summarisation and
\* keyword_extraction.
C28_DefaultConfigurationPlans ==
    (fIn.fn = "default" /\ fOut # <<>> /\ fIn.conf.disabled = {}) =>
        /\ fOut[1].input_errors = <<>>
        /\ fOut[1].kind = "ok"
        /\ Precedes(fOut[1].order, "transcription_parsing", "text_enhancement")
        /\ Precedes(fOut[1].order, "text_enhancement", "noise_reduction")
        /\ Precedes(fOut[1].order, "noise_reduction", "summarisation")
        /\ Precedes(fOut[1].order, "noise_reduction", "keyword_extraction")

(***************************************************************************)
(* Display times of the parsed transcript (ParseSpec).                     *)
(***************************************************************************)
\* segment i is kept and has a well-formed cue start
Timed(i) == fIn.segments[i].alnum /\ fIn.segments[i].cue.wellformed

CueOffset(i) ==
    LET c == fIn.segments[i].cue
    IN ((c.h * 60 + c.m) * 60 + c.s) * 1000 + c.ms

\* segment i's cue offset is smaller than that of the timed segment before it
RollsOver(i) ==
    /\ Timed(i)
    /\ \E j \in 1..(i-1) :
          /\ Timed(j)
          /\ \A k \in (j+1)..(i-1) : ~Timed(k)
          /\ CueOffset(i) < CueOffset(j)

\* C26: with a known meeting start, the rollover offset after segment i is
\* four hours times the number of segments up to i whose cue offset is
\* smaller than that of the timed segment before them, and the entry a
\* timed segment goes to shows the HH:MM of meeting start + cue offset +
\* that rollover.
C26_RolloverAddsFourHours ==
    (fIn.fn = "parse" /\ fOut # <<>> /\ fIn.start_dt # None) =>
        \A i \in 1..Len(fIn.segments) :
            LET rollover == 4 * 60 * 60 * 1000 * Cardinality({j \in 1..i : RollsOver(j)})
                shown == fIn.start_dt + CueOffset(i) + rollover
            IN /\ fOut[1].rollover_at[i] = rollover
               /\ Timed(i) =>
                    fOut[1].consolidated[fOut[1].entry_of[i]].hhmm =
                        <<(shown \div (60 * 60 * 1000)) % 24, (shown \div (60 * 1000)) % 60>>

(***************************************************************************)
(* The non-list fields of a person record (PeopleSpec).                    *)
(***************************************************************************)
\* the people directory before the i-th run
DirectoryBefore(i) == IF i = 1 THEN fIn.ppl ELSE fOut[i - 1]

\* C27: a merge leaves raw_name, display_name and role_override of a person
\* already in the directory as they were; a person the merge creates gets
\* the delta's display_name (the title-cased raw name when the delta has
\* none) and a null role_override.
C27_PersonFieldsKept ==
    fIn.fn = "people" =>
        \A i \in 1..Len(fOut) :
            IF "bob" \in DOMAIN DirectoryBefore(i)
            THEN /\ fOut[i]["bob"].display_name = DirectoryBefore(i)["bob"].display_name
                 /\ fOut[i]["bob"].role_override = DirectoryBefore(i)["bob"].role_override
                 /\ fOut[i]["bob"].raw_name = DirectoryBefore(i)["bob"].raw_name
            ELSE /\ fOut[i]["bob"].role_override = "None"
                 /\ fOut[i]["bob"].display_name =
                        IF fIn.deltas[i].display_name = "" THEN "Bob"
                        ELSE fIn.deltas[i].display_name

C27_Witness ==
    /\ fIn.fn = "people" /\ Len(fOut) = 2
    /\ "bob" \in DOMAIN fIn.ppl
    /\ fIn.ppl["bob"].role_override = "manager"
    /\ fIn.deltas[1].display_name = "Bobby"
    /\ fIn.deltas[2].discovered_roles = <<"lead">>
    /\ fOut[2]["bob"].display_name = "Robert"
    /\ fOut[2]["bob"].role_override = "manager"

(***************************************************************************)
(* The call's status across reruns (RerunSpec).                            *)
(***************************************************************************)
\* the call has ended without a success result
RunFailed == RunDone /\ ~(run.result.kind = "returned" /\ run.result.success)

\* the incident file holds the call document of the call
CallPersisted ==
    FindTrc(read_json(incident_file, DefaultIncident).trcs, trc_id(run.start_time_iso)) # 0

\* C29: the call's persisted status is "processed" only if the most recent
\* run for the call completed successfully: when a run has failed, the call
\* it ran for is not marked "processed".
C29_ProcessedOnlyAfterSuccess ==
    (RunFailed /\ CallPersisted) => PersistedTrc.status # "processed"

(***************************************************************************)
(* The result a call returns (Spec).                                       *)
(***************************************************************************)
\* the positions of the result's stage logs with status Failed
FailedEntries ==
    {i \in 1..Len(run.result.stage_logs) : run.result.stage_logs[i].status = "Failed"}

\* C30: a returned PipelineResult is consistent: success exactly when
\* failed_stage is null; without success exactly one log entry is Failed, it
\* is the last and names failed_stage; with success no entry is Failed.
C30_ResultIsConsistent ==
    (RunDone /\ run.result.kind = "returned") =>
        /\ run.result.success <=> run.result.failed_stage = "None"
        /\ run.result.success => FailedEntries = {}
        /\ ~run.result.success =>
              /\ FailedEntries = {Len(run.result.stage_logs)}
              /\ run.result.stage_logs # <<>>
              /\ run.result.stage_logs[Len(run.result.stage_logs)].stage
                    = run.result.failed_stage

C30_Witness ==
    /\ RunDone
    /\ runs = 2
    /\ run.result.kind = "returned"
    /\ run.result.success
    /\ run.result.failed_stage = "None"
    /\ PersistedTrc.status = "processed"

====
